---- MODULE Spec2Model ----
(***************************************************************************)
(* A model of euclidr/skiplist: the indexable skip list (skiplist.rs), its  *)
(* level generator (level_generator.rs), the ordered skip list             *)
(* (ordered_skiplist.rs) and the sorted set (skipset.rs).                   *)
(*                                                                         *)
(* Memory model.  `next: Option<Box<Node<V>>>` is an owning link, so the    *)
(* nodes behind the head always form a finite sequence: `chain`.  A raw    *)
(* pointer (`prev`, `links[i]`) is the address of a node; the address of a *)
(* node is its position in the ownership chain (0 is the head, 1 the node  *)
(* owned by the head, ...).  A freshly boxed node that is not linked yet   *)
(* has the address one past the chain.  When the chain is spliced every    *)
(* stored address is translated to the new positions and an address of a   *)
(* dropped node becomes Dangling.  A Vec is a sequence; Rust index i is    *)
(* TLA+ index i + 1.                                                       *)
(***************************************************************************)
EXTENDS Integers, Sequences, FiniteSets, TLC

\* ---------------------------------------------------------------- bounds
MaxLen == 3
Levels == 2
MaxKey == 3
MaxTag == 1

\* ------------------------------------------------------------- addresses
Null == -1
HeadPtr == 0
Dangling == -2

\* ---------------------------------------------------------------- values
\* A value is <<key, tag>>: Ord compares the key only, the tag tells apart
\* two values that compare equal.  None is the empty tuple, Some(v) is <<v>>.
Keys == 1..MaxKey
Tags == 0..MaxTag
Values == Keys \X Tags
\* the payloads put into the indexed list, which never compares them
ListValues == {<<1, 0>>, <<2, 0>>}
Queries == 0..(MaxKey + 1)
None == <<>>
Some(v) == <<v>>
Key(v) == v[1]

\* Ordering of V and of Borrow<Q>
Cmp(a, b) == IF a < b THEN "Less" ELSE IF a = b THEN "Equal" ELSE "Greater"

\* ------------------------------------------------------------------- Vec
VecGet(v, i) == v[i + 1]
VecSet(v, i, x) == [v EXCEPT ![i + 1] = x]
VecLen(v) == Len(v)
VecNew(x, n) == [i \in 1..n |-> x]

\* ------------------------------------------------------------------ Node
\* slip: a node is made with one level more than asked for
NodeNew_ExtraLevel(value, levels) ==
    [value |-> value, prev |-> Null,
     links |-> VecNew(Null, levels + 1), links_len |-> VecNew(0, levels + 1)]

\* Node::new
NodeNew(value, levels) ==
    [value |-> value, prev |-> Null,
     links |-> VecNew(Null, levels), links_len |-> VecNew(0, levels)]

increase_level(node) ==
    [node EXCEPT !.links = Append(@, Null), !.links_len = Append(@, 0)]

\* slip: the old value is handed back but the new one is not stored
replace_KeepOld(node, value) == [node |-> node, result |-> node.value]

\* Node::replace: the node with the new value, and the value taken out
replace(node, value) ==
    [node |-> [node EXCEPT !.value = Some(value)], result |-> node.value]

\* -------------------------------------------------------- LevelGenerator
LevelGeneratorNew(levels) == [levels |-> levels, cur_level_limit |-> 0]

\* The loop of choose(): `draw` is the number of successive thresholds
\* p, p^2, p^4, ... the uniform sample lies below.
RECURSIVE ChooseLoop(_, _, _)
ChooseLoop(level, draw, limit) ==
    IF level < draw /\ level < limit
    THEN ChooseLoop(level + 1, draw, limit)
    ELSE level

\* usize arithmetic wraps modulo 2^w in a build without overflow checks; w is
\* 64 on the usual targets and 16 here, far above every count of the model
UsizeModulus == 65536

WrappingSub(a, b) == (a - b) % UsizeModulus

WrappingAdd(a, b) == (a + b) % UsizeModulus

\* slip: a level at the ceiling is handed out as it is
ChooseClamp_NoClamp(level, levels) == level

\* `if level >= self.levels { level = self.levels - 1 }`
ChooseClamp(level, levels) == IF level >= levels THEN WrappingSub(levels, 1) ELSE level

\* choose(): the generator afterwards and the level returned; overflow tells
\* that `self.levels - 1` was computed with levels = 0, which panics in a
\* build with overflow checks and wraps in one without
choose(lg, draw) ==
    LET level0 == ChooseLoop(0, draw, lg.cur_level_limit)
    IN  IF level0 = lg.cur_level_limit
        THEN LET level == ChooseClamp(level0, lg.levels)
             IN  [lg |-> [lg EXCEPT !.cur_level_limit = WrappingAdd(level, 1)],
                  level |-> level,
                  overflow |-> level0 >= lg.levels /\ lg.levels = 0]
        ELSE [lg |-> lg, level |-> level0, overflow |-> FALSE]

shrink(lg) ==
    IF lg.cur_level_limit > 0
    THEN [lg EXCEPT !.cur_level_limit = @ - 1]
    ELSE lg

\* `impl Clone`: with_config(self.p, self.levels)
clone(lg) == LevelGeneratorNew(lg.levels)

\* -------------------------------------------------------------- SkipList
\* A SkipList value: head, the chain owned through `next`, length and the
\* level generator.
SkipListNew(lg) ==
    [head |-> NodeNew(None, 0), chain |-> <<>>, length |-> 0, level_generator |-> lg]

NodeAt(L, p) == IF p = HeadPtr THEN L.head ELSE L.chain[p]

SetNode(L, p, n) ==
    IF p = HeadPtr THEN [L EXCEPT !.head = n] ELSE [L EXCEPT !.chain[p] = n]

\* address of a boxed node that is not yet in the chain
NewAddr(L) == Len(L.chain) + 1

\* Translate every stored address after a splice of the chain; f maps the
\* old position of a node to its new one, or to Dangling when it was dropped
RelocAddr(a, f) == IF a \in DOMAIN f THEN f[a] ELSE a

RelocNode(n, f) ==
    [n EXCEPT !.prev = RelocAddr(@, f),
              !.links = [i \in DOMAIN @ |-> RelocAddr(@[i], f)]]

Reloc(L, f) ==
    [L EXCEPT !.head = RelocNode(@, f),
              !.chain = [i \in DOMAIN @ |-> RelocNode(@[i], f)]]

\* The descents.  Every walk keeps cur_ptr, cur_index and cur_level in its
\* state st; st.path lists the positions the loop has been at, in order.
Pos(ptr, index, level) == [ptr |-> ptr, index |-> index, level |-> level]

\* `let mut cur_level = self.head.links.len() - 1; cur_ptr = head; cur_index = 0`
StartLevel(L) == VecLen(L.head.links) - 1

StartPath(L) == <<Pos(HeadPtr, 0, StartLevel(L))>>

\* `cur_ptr = next_ptr; cur_index = next_index; continue`
Forward(st, next_ptr, next_index) ==
    [st EXCEPT !.cur_ptr = next_ptr, !.cur_index = next_index,
               !.path = Append(@, Pos(next_ptr, next_index, st.cur_level))]

\* `cur_level -= 1`
Descend(st) ==
    [st EXCEPT !.cur_level = @ - 1,
               !.path = Append(@, Pos(st.cur_ptr, st.cur_index, st.cur_level - 1))]

\* head.increase_level() until the head has more than `level` levels
RECURSIVE GrowHead(_, _)
GrowHead(head, level) ==
    IF level >= VecLen(head.links) THEN GrowHead(increase_level(head), level) ELSE head

\* slip: the new node's span is counted from the wrong end
InsertNodeSpan_OffByOne(next_index, actual_index) == next_index - actual_index

\* span given to the new node's link when it is put before an existing link
InsertNodeSpan(next_index, actual_index) == next_index + 1 - actual_index

\* span of the traversed link that now ends at the new node
InsertPrevSpan(actual_index, cur_index) == actual_index - cur_index

\* slip: a link that jumps over the new node keeps its span
InsertSkipSpan_NoIncrement(len) == len

\* a link above the new node's level that jumps over it
InsertSkipSpan(len) == len + 1

\* the descent of insert(); st = [L, node, cur_ptr, cur_level, cur_index]
RECURSIVE InsertWalk(_, _, _)
InsertWalk(st, level, actual_index) ==
    LET cur == NodeAt(st.L, st.cur_ptr)
        lv == st.cur_level
        node_ptr == NewAddr(st.L)
        next_ptr == VecGet(cur.links, lv)
        Down(s) == IF lv = 0 THEN s
                   ELSE InsertWalk(Descend(s), level, actual_index)
    IN  IF next_ptr = Null
        THEN IF lv <= level
             THEN Down([st EXCEPT !.L = SetNode(st.L, st.cur_ptr,
                          [cur EXCEPT !.links = VecSet(@, lv, node_ptr),
                                      !.links_len = VecSet(@, lv,
                                          InsertPrevSpan(actual_index, st.cur_index))])])
             ELSE Down(st)
        ELSE LET next_index == st.cur_index + VecGet(cur.links_len, lv)
             IN  IF next_index < actual_index
                 THEN InsertWalk(Forward(st, next_ptr, next_index), level, actual_index)
                 ELSE IF lv <= level
                      THEN Down([st EXCEPT
                              !.node = [@ EXCEPT
                                  !.links_len = VecSet(@, lv,
                                      InsertNodeSpan(next_index, actual_index)),
                                  !.links = VecSet(@, lv, VecGet(cur.links, lv))],
                              !.L = SetNode(st.L, st.cur_ptr,
                                  [cur EXCEPT
                                      !.links_len = VecSet(@, lv,
                                          InsertPrevSpan(actual_index, st.cur_index)),
                                      !.links = VecSet(@, lv, node_ptr)])])
                      ELSE Down([st EXCEPT !.L = SetNode(st.L, st.cur_ptr,
                              [cur EXCEPT !.links_len =
                                  VecSet(@, lv, InsertSkipSpan(VecGet(@, lv)))])])

\* Put `node` (address NewAddr) into the chain right behind the node at
\* address p: pre_node.next.take(), next.prev = node_ptr, node.next = next,
\* pre_node.next = node; then the addresses follow the new positions.
SpliceIn(L, p, node) ==
    LET n == Len(L.chain)
        rest == SubSeq(L.chain, p + 1, n)
        rest1 == IF rest = <<>> THEN rest
                 ELSE [rest EXCEPT ![1] = [@ EXCEPT !.prev = NewAddr(L)]]
        L1 == [L EXCEPT !.chain = SubSeq(L.chain, 1, p) \o <<node>> \o rest1]
        f == [a \in 1..(n + 1) |-> IF a = n + 1 THEN p + 1 ELSE IF a > p THEN a + 1 ELSE a]
    IN  Reloc(L1, f)

\* `let level = self.level_generator.choose(); while level >=
\* self.head.links.len() { self.head.increase_level(); }`: the list with the
\* generator advanced and the head grown, and the level chosen
Grown(L, draw) ==
    LET c == choose(L.level_generator, draw)
    IN  [L |-> [L EXCEPT !.level_generator = c.lg, !.head = GrowHead(@, c.level)],
         level |-> c.level]

\* insert() up to the end of its loop, for an index within the bounds
InsertDescent(L, index, value, draw) ==
    LET g == Grown(L, draw)
    IN  InsertWalk([L |-> g.L, node |-> NodeNew(Some(value), g.level + 1),
                    cur_ptr |-> HeadPtr, cur_level |-> StartLevel(g.L),
                    cur_index |-> 0, path |-> StartPath(g.L)],
                   g.level, index + 1)

\* slip: the node put right behind the head gets no back-reference
InsertNodePrev_NullAtHead(cur_ptr) == IF cur_ptr = HeadPtr THEN Null ELSE cur_ptr

\* `node.prev = cur_ptr`
InsertNodePrev(cur_ptr) == cur_ptr

\* slip: index == len() + 1 is let through
insert_guard_Inclusive(index, length) == index > length + 1

\* `if index > self.length { panic!("Index out of bounds."); }`
insert_guard(index, length) == index > length

\* SkipList::insert; the result carries the list and the panic
insert(L, index, value, draw) ==
    IF insert_guard(index, L.length)
    THEN [sk |-> L, ret |-> None, panic |-> "Index out of bounds."]
    ELSE LET st == InsertDescent(L, index, value, draw)
             node == [st.node EXCEPT !.prev = InsertNodePrev(st.cur_ptr)]
             L2 == SpliceIn(st.L, st.cur_ptr, node)
         IN  [sk |-> [L2 EXCEPT !.length = @ + 1], ret |-> None, panic |-> "none"]

\* slip: the removed node is still counted in the merged span
RemoveUnlinkSpan_NoAbsorb(len, next_links_len) ==
    IF next_links_len = 0 THEN 0 ELSE len + next_links_len

\* span of the traversed link after the link of the removed node is taken
\* out; next_links_len is the removed node's own span at that level
RemoveUnlinkSpan(len, next_links_len) ==
    IF next_links_len = 0 THEN 0 ELSE len + next_links_len - 1

\* slip: a link that jumps over the removed node keeps its span
RemoveSkipSpan_NoDecrement(len) == len

\* a link that jumps over the removed node
RemoveSkipSpan(len) == len - 1

\* slip: the link that led to the removed node is left as it was
RemoveUnlinkTarget_Stale(next_ptr, next_link) == next_ptr

\* `(*cur_ptr).links[cur_level] = (*next_ptr).links[cur_level]`
RemoveUnlinkTarget(next_ptr, next_link) == next_link

\* slip: the walk stops one node early
RemoveForward_OffByOne(next_index, actual_index) == next_index + 1 < actual_index

\* `if next_index < actual_index`: move forward in the same level
RemoveForward(next_index, actual_index) == next_index < actual_index

\* the descent of remove(); st = [L, cur_ptr, cur_level, cur_index, panic]
RECURSIVE RemoveWalk(_, _)
RemoveWalk(st, actual_index) ==
    LET cur == NodeAt(st.L, st.cur_ptr)
        lv == st.cur_level
        next_ptr == VecGet(cur.links, lv)
    IN  IF next_ptr = Null
        THEN IF lv = 0
             THEN [st EXCEPT !.panic = "unreachable"]
             ELSE RemoveWalk(Descend(st), actual_index)
        ELSE LET next_index == st.cur_index + VecGet(cur.links_len, lv)
                 next_links_len == VecGet(NodeAt(st.L, next_ptr).links_len, lv)
             IN  IF RemoveForward(next_index, actual_index)
                 THEN RemoveWalk(Forward(st, next_ptr, next_index), actual_index)
                 ELSE LET cur1 ==
                              IF next_index = actual_index
                              THEN [cur EXCEPT
                                      !.links = VecSet(@, lv,
                                          RemoveUnlinkTarget(next_ptr,
                                              VecGet(NodeAt(st.L, next_ptr).links, lv))),
                                      !.links_len = VecSet(@, lv,
                                          RemoveUnlinkSpan(VecGet(@, lv), next_links_len))]
                              ELSE [cur EXCEPT
                                      !.links_len = VecSet(@, lv, RemoveSkipSpan(VecGet(@, lv)))]
                          st1 == [st EXCEPT !.L = SetNode(st.L, st.cur_ptr, cur1)]
                      IN  IF lv = 0 THEN st1
                          ELSE RemoveWalk(Descend(st1), actual_index)

\* Take the node behind address p out of the chain: pre_node.next.take(),
\* the_node.next.take(), next_node.prev = cur_ptr, pre_node.next = next_node;
\* the addresses follow the new positions, the dropped node's is Dangling.
SpliceOut(L, p) ==
    LET n == Len(L.chain)
        rest == SubSeq(L.chain, p + 2, n)
        rest1 == IF rest = <<>> THEN rest
                 ELSE [rest EXCEPT ![1] = [@ EXCEPT !.prev = p]]
        L1 == [L EXCEPT !.chain = SubSeq(L.chain, 1, p) \o rest1]
        f == [a \in 1..n |-> IF a = p + 1 THEN Dangling ELSE IF a > p + 1 THEN a - 1 ELSE a]
    IN  Reloc(L1, f)

\* `self.head.links.len() - 1` on a head without levels: the subtraction
\* overflows (a panic in a checked build, a wrapped index that the Vec
\* bounds check rejects otherwise)
NoLevelPanics == {"attempt to subtract with overflow", "index out of bounds (Vec)"}

\* the builds' outcomes to choose from in a call on list L
BuildChoices(L) == IF VecLen(L.head.links) = 0 THEN NoLevelPanics ELSE {"none"}

\* remove() up to the end of its loop, for an index that passed the check;
\* on a head without levels the first `links[cur_level]` is not reached
RemoveDescent(L, index, np) ==
    LET st == [L |-> L, cur_ptr |-> HeadPtr, cur_level |-> StartLevel(L),
               cur_index |-> 0, panic |-> "none", path |-> StartPath(L)]
    IN  IF VecLen(L.head.links) = 0 THEN [st EXCEPT !.panic = np]
        ELSE RemoveWalk(st, index + 1)

\* slip: a removal gives a level back to the generator
RemoveGenerator_Shrink(lg) == shrink(lg)

\* remove() never touches self.level_generator: shrink() is not called
RemoveGenerator(lg) == lg

\* SkipList::remove; `np` picks the build's panic on a head without levels
remove(L, index, np) ==
    IF index > L.length
    THEN [sk |-> L, ret |-> None, panic |-> "Index out of bounds."]
    ELSE LET st == RemoveDescent(L, index, np)
         IN  IF st.panic # "none"
             THEN [sk |-> st.L, ret |-> None, panic |-> st.panic]
             ELSE IF st.cur_ptr >= Len(st.L.chain)
             THEN [sk |-> st.L, ret |-> None, panic |-> "unwrap on None"]
             ELSE LET the_node == st.L.chain[st.cur_ptr + 1]
                      L2 == SpliceOut(st.L, st.cur_ptr)
                  IN  [sk |-> [L2 EXCEPT !.length = @ - 1,
                                         !.level_generator = RemoveGenerator(@)],
                       ret |-> the_node.value, panic |-> "none"]

\* ---------------------------------------------------------------- ranges
\* A Bound is [kind |-> "Unbounded"] or [kind |-> "Included" / "Excluded", i |-> n]
Unbounded == [kind |-> "Unbounded", i |-> 0]
Included(i) == [kind |-> "Included", i |-> i]
Excluded(i) == [kind |-> "Excluded", i |-> i]

_normalize_range(L, start, end) ==
    LET left == CASE start.kind = "Unbounded" -> 0
                  [] start.kind = "Included" -> start.i
                  [] start.kind = "Excluded" -> start.i + 1
        right0 == CASE end.kind = "Unbounded" -> L.length
                    [] end.kind = "Included" -> end.i + 1
                    [] end.kind = "Excluded" -> end.i
        right == IF right0 > L.length THEN L.length ELSE right0
    IN  IF left > right
        THEN [left |-> left, right |-> right, panic |-> "Invalid range."]
        ELSE [left |-> left, right |-> right, panic |-> "none"]

\* the descent of remove_range(); st = [prev_ptrs, prev_indexes, cur_ptr,
\* cur_level, cur_index]; left is the 1-based position of the first node to go
RECURSIVE RemoveRangeWalk(_, _, _)
RemoveRangeWalk(L, st, left) ==
    LET lv == st.cur_level
        st0 == [st EXCEPT !.prev_ptrs = VecSet(@, lv, st.cur_ptr),
                          !.prev_indexes = VecSet(@, lv, st.cur_index)]
        cur == NodeAt(L, st.cur_ptr)
        next_ptr == VecGet(cur.links, lv)
        cur_len == VecGet(cur.links_len, lv)
        Down == IF lv = 0 THEN st0
                ELSE RemoveRangeWalk(L, Descend(st0), left)
    IN  IF next_ptr = Null
        THEN Down
        ELSE IF st.cur_index + cur_len < left
             THEN RemoveRangeWalk(L, Forward(st0, next_ptr, st.cur_index + cur_len), left)
             ELSE Down

\* `while !next_ptr.is_null() && next_index < right`: the first link target at
\* level i that survives, with its position
RECURSIVE RemoveRangeSkip(_, _, _, _, _)
RemoveRangeSkip(L, i, next_ptr, next_index, right) ==
    IF next_ptr # Null /\ next_index < right
    THEN LET node == NodeAt(L, next_ptr)
         IN  RemoveRangeSkip(L, i, VecGet(node.links, i),
                             next_index + VecGet(node.links_len, i), right)
    ELSE [next_ptr |-> next_ptr, next_index |-> next_index]

\* slip: the removed nodes are still counted in the re-pointed span
RemoveRangeSpan_KeepRemoved(next_index, prev_index, left, right) ==
    next_index - prev_index

\* span of the re-pointed link at one level
RemoveRangeSpan(next_index, prev_index, left, right) ==
    (next_index - prev_index) - (right - left)

\* `for i in 0..total_level`: re-point the link of prev_ptrs[i] at level i
RECURSIVE RemoveRangeRelink(_, _, _, _, _)
RemoveRangeRelink(L, st, i, left, right) ==
    IF i >= VecLen(st.prev_ptrs) THEN L
    ELSE LET p == VecGet(st.prev_ptrs, i)
             prev_node == NodeAt(L, p)
             t == RemoveRangeSkip(L, i, VecGet(prev_node.links, i),
                                  VecGet(st.prev_indexes, i) + VecGet(prev_node.links_len, i),
                                  right)
             prev1 == IF t.next_ptr = Null
                      THEN [prev_node EXCEPT !.links = VecSet(@, i, Null),
                                             !.links_len = VecSet(@, i, 0)]
                      ELSE [prev_node EXCEPT !.links = VecSet(@, i, t.next_ptr),
                                             !.links_len = VecSet(@, i,
                                                 RemoveRangeSpan(t.next_index,
                                                     VecGet(st.prev_indexes, i), left, right))]
         IN  RemoveRangeRelink(SetNode(L, p, prev1), st, i + 1, left, right)

\* slip: the node after the removed range keeps its old prev
RemoveRangePrev_Stale(prev_ptr, old_prev) == old_prev

\* `next.prev = prev_ptrs[0]`: the prev of the first node after the range
RemoveRangePrev(prev_ptr, old_prev) == prev_ptr

\* Drop `count` nodes behind address p: prev_node.next.take(), count times
\* node.next.take(), prev_node.next = next_node, next.prev = prev_ptrs[0]
SpliceOutRange(L, p, count) ==
    LET n == Len(L.chain)
        rest == SubSeq(L.chain, p + 1 + count, n)
        rest1 == IF rest = <<>> THEN rest
                 ELSE [rest EXCEPT ![1] = [@ EXCEPT !.prev = RemoveRangePrev(p, @)]]
        L1 == [L EXCEPT !.chain = SubSeq(L.chain, 1, p) \o rest1]
        f == [a \in 1..n |-> IF a > p /\ a <= p + count THEN Dangling
                              ELSE IF a > p + count THEN a - count ELSE a]
    IN  Reloc(L1, f)

\* remove_range() up to the end of its first loop; left is 1-based
RemoveRangeDescent(L, left) ==
    LET total_level == VecLen(L.head.links)
    IN  RemoveRangeWalk(L, [prev_ptrs |-> VecNew(Null, total_level),
                            prev_indexes |-> VecNew(0, total_level),
                            cur_ptr |-> HeadPtr, cur_level |-> StartLevel(L),
                            cur_index |-> 0, path |-> StartPath(L)], left)

\* slip: a range removal counts as one element
RemoveRangeLength_One(length, left, right) == length - 1

\* element count after a removal of the range [left, right)
RemoveRangeLength(length, left, right) == length - (right - left)

\* SkipList::remove_range
remove_range(L, start, end) ==
    LET r == _normalize_range(L, start, end)
    IN  IF r.panic # "none" THEN [sk |-> L, ret |-> None, panic |-> r.panic]
        ELSE IF r.left = r.right THEN [sk |-> L, ret |-> Some(0), panic |-> "none"]
        ELSE LET left == r.left + 1
                 right == r.right + 1
                 st == RemoveRangeDescent(L, left)
                 L1 == RemoveRangeRelink(L, st, 0, left, right)
                 L2 == SpliceOutRange(L1, VecGet(st.prev_ptrs, 0), right - left)
             IN  [sk |-> [L2 EXCEPT !.length = RemoveRangeLength(@, left, right)],
                  ret |-> Some(right - left), panic |-> "none"]

\* ------------------------------------------------------------------- get
\* the loop of _get_ptr; st = [cur_ptr, cur_level, cur_index, path].  It ends
\* at the node at actual_index; cur_ptr is Null when the walk cannot go on
\* (the level would drop below 0 or the link to follow is not a node)
RECURSIVE GetPtrWalk(_, _, _)
GetPtrWalk(L, actual_index, st) ==
    IF actual_index = st.cur_index THEN st
    ELSE LET node == NodeAt(L, st.cur_ptr)
             next_ptr == VecGet(node.links, st.cur_level)
             next_index == st.cur_index + VecGet(node.links_len, st.cur_level)
         IN  IF next_index <= actual_index /\ st.cur_index # next_index
             THEN IF next_ptr \in 1..Len(L.chain)
                  THEN GetPtrWalk(L, actual_index, Forward(st, next_ptr, next_index))
                  ELSE Forward(st, Null, next_index)
             ELSE IF st.cur_level = 0 THEN [Descend(st) EXCEPT !.cur_ptr = Null]
                  ELSE GetPtrWalk(L, actual_index, Descend(st))

\* _get_ptr up to the end of its loop, for an index below the length
GetPtrDescent(L, index) ==
    LET st == [cur_ptr |-> HeadPtr, cur_level |-> StartLevel(L), cur_index |-> 0,
               path |-> StartPath(L)]
    IN  IF VecLen(L.head.links) = 0 THEN [st EXCEPT !.cur_ptr = Null]
        ELSE GetPtrWalk(L, index + 1, st)

\* _get_ptr: the address reached, or Null
_get_ptr(L, index) ==
    IF L.length <= index THEN Null
    ELSE GetPtrDescent(L, index).cur_ptr

\* slip: get lets index == len() through to _get_ptr
get_guard_Inclusive(length, index) == length < index

\* `if self.length <= index { return None; }`
get_guard(length, index) == length <= index

\* SkipList::get: None beyond the length, else Some(value) of the node found
get(L, index) ==
    IF get_guard(L.length, index) THEN [ret |-> None, panic |-> "none"]
    ELSE LET p == _get_ptr(L, index)
         IN  IF p = Null THEN [ret |-> None, panic |-> "walk left the list"]
             ELSE [ret |-> NodeAt(L, p).value, panic |-> "none"]

\* iter(): the values met by following `next` from the head
iter(L) == [i \in 1..Len(L.chain) |-> L.chain[i].value[1]]

\* ReverseIter::next until current is null: the value of the current node,
\* then its prev unless that node has no value (the head)
\* what a read through a pointer that is null or dangling stands for
WildValue == <<0, 0>>

RECURSIVE ReverseIterFrom(_, _, _)
ReverseIterFrom(L, current, fuel) ==
    IF current = Null \/ fuel = 0 THEN <<>>
    ELSE IF current \notin 1..Len(L.chain) THEN <<WildValue>>
    ELSE LET node == NodeAt(L, current)
             pre_ptr == node.prev
         IN  IF pre_ptr \notin 0..Len(L.chain) THEN <<node.value[1], WildValue>>
             ELSE IF NodeAt(L, pre_ptr).value = None
                  THEN <<node.value[1]>>
                  ELSE <<node.value[1]>> \o ReverseIterFrom(L, pre_ptr, fuel - 1)

reverse_iter(L) ==
    IF L.length = 0 THEN <<>>
    ELSE ReverseIterFrom(L, _get_ptr(L, L.length - 1), Len(L.chain) + 1)

push_front(L, value, draw) == insert(L, 0, value, draw)

push_back(L, value, draw) == insert(L, L.length, value, draw)

pop_front(L, np) ==
    IF L.length = 0 THEN [sk |-> L, ret |-> None, panic |-> "none"]
    ELSE remove(L, 0, np)

\* slip: pop_back takes the front element
pop_back_Front(L, np) == pop_front(L, np)

pop_back(L, np) ==
    IF L.length = 0 THEN [sk |-> L, ret |-> None, panic |-> "none"]
    ELSE remove(L, L.length - 1, np)

\* ---------------------------------------------------------------- range
\* node.next of the node at address a: the next node of the chain, or null
NextOf(L, a) == IF a + 1 \in 1..Len(L.chain) THEN a + 1 ELSE Null

\* slip: the window is taken to include its right end
RangeCount_Inclusive(left, right) == right - left + 1

\* `left: right - left`: the number of items a range iterator has to yield
RangeCount(left, right) == right - left

\* Range::next until it returns None: the items yielded from `current` on
RECURSIVE RangeNext(_, _, _)
RangeNext(L, current, left) ==
    IF current = Null THEN <<>>
    ELSE LET node == NodeAt(L, current)
             left1 == left - 1
             current1 == IF left1 > 0 THEN NextOf(L, current) ELSE Null
         IN  <<node.value[1]>> \o RangeNext(L, current1, left1)

\* SkipList::range: the items the iterator yields, or the panic of the call
range(L, start, end) ==
    IF L.length = 0 THEN [items |-> <<>>, panic |-> "none"]
    ELSE LET r == _normalize_range(L, start, end)
         IN  IF r.panic # "none" THEN [items |-> <<>>, panic |-> r.panic]
             ELSE IF r.left = r.right THEN [items |-> <<>>, panic |-> "none"]
             ELSE LET first == _get_ptr(L, r.left)
                  IN  IF first \notin 1..Len(L.chain)
                      THEN [items |-> <<WildValue>>, panic |-> "none"]
                      ELSE [items |-> RangeNext(L, first, RangeCount(r.left, r.right)),
                            panic |-> "none"]

\* ReverseRange::next until it returns None
RECURSIVE ReverseRangeNext(_, _, _)
ReverseRangeNext(L, current, left) ==
    IF current = Null THEN <<>>
    ELSE IF current \notin 1..Len(L.chain) THEN <<WildValue>>
    ELSE LET node == NodeAt(L, current)
             left1 == left - 1
             pre_ptr == node.prev
         IN  IF pre_ptr \notin 0..Len(L.chain) THEN <<node.value[1], WildValue>>
             ELSE LET current1 == IF NodeAt(L, pre_ptr).value = None THEN Null
                                  ELSE IF left1 = 0 THEN Null ELSE pre_ptr
                  IN  <<node.value[1]>> \o ReverseRangeNext(L, current1, left1)

\* SkipList::reverse_range
reverse_range(L, start, end) ==
    IF L.length = 0 THEN [items |-> <<>>, panic |-> "none"]
    ELSE LET r == _normalize_range(L, start, end)
         IN  IF r.panic # "none" THEN [items |-> <<>>, panic |-> r.panic]
             ELSE IF r.left = r.right THEN [items |-> <<>>, panic |-> "none"]
             ELSE [items |-> ReverseRangeNext(L, _get_ptr(L, r.right - 1),
                                              RangeCount(r.left, r.right)),
                   panic |-> "none"]

\* ----------------------------------------------------------------- dedup
\* slip: the earlier element of an equal pair is the one removed
DedupRemoveIndex_First(index) == index

\* `self.remove(index + 1)`: the later element of an equal pair goes
DedupRemoveIndex(index) == index + 1

\* the `while !current.is_null()` loop; current is the node at index
RECURSIVE DedupLoop(_, _)
DedupLoop(L, index) ==
    IF index + 2 > Len(L.chain) THEN [sk |-> L, ret |-> None, panic |-> "none"]
    ELSE LET current == L.chain[index + 1]
             next == L.chain[index + 2]
         IN  IF Cmp(Key(next.value[1]), Key(current.value[1])) = "Equal"
             THEN LET r == remove(L, DedupRemoveIndex(index), "none")
                  IN  IF r.panic # "none" THEN [sk |-> r.sk, ret |-> None, panic |-> r.panic]
                      ELSE DedupLoop(r.sk, index)
             ELSE DedupLoop(L, index + 1)

\* SkipList::dedup
dedup(L) ==
    IF L.length = 0 THEN [sk |-> L, ret |-> None, panic |-> "none"]
    ELSE DedupLoop(L, 0)

\* --------------------------------------------------------------- explain
\* `const MAX_SPAN: usize = 20;`
MAX_SPAN == 20

\* slip: a window of exactly MAX_SPAN elements is refused as well
ExplainTooBig_Inclusive(span) == span >= MAX_SPAN

\* `if span > MAX_SPAN { return Err(..) }`
ExplainTooBig(span) == span > MAX_SPAN

\* the `for idx in 0..span` walks of explain: the nodes shown, found by
\* following `next` from the node at `left` (the last node is kept when
\* the chain ends)
RECURSIVE ExplainNodes(_, _, _)
ExplainNodes(L, cur, span) ==
    IF span = 0 THEN <<>>
    ELSE <<cur>> \o ExplainNodes(L, IF NextOf(L, cur) = Null THEN cur ELSE NextOf(L, cur),
                                 span - 1)

\* SkipList::explain; the text is kept as its parts: the header fields, one
\* line per level telling which shown nodes reach that level, the values
explain(L, start, end) ==
    LET r == _normalize_range(L, start, end)
        span == r.right - r.left
    IN  IF r.panic # "none" THEN [ret |-> None, panic |-> r.panic]
        ELSE IF ExplainTooBig(span)
        THEN [ret |-> [ok |-> FALSE,
                       text |-> "Range span is too big, the span should be smaller than 20"],
              panic |-> "none"]
        ELSE LET lv == VecLen(L.head.links)
                 shown == IF span > 0 THEN ExplainNodes(L, _get_ptr(L, r.left), span)
                          ELSE <<>>
             IN  [ret |-> [ok |-> TRUE,
                           text |-> [start |-> r.left, levels |-> lv,
                                     show_len |-> r.right - r.left,
                                     total_len |-> L.length,
                                     l_lines |-> [level \in 0..(lv - 1) |->
                                         [idx \in 1..Len(shown) |->
                                             VecLen(NodeAt(L, shown[idx]).links) > level]],
                                     values |-> [idx \in 1..Len(shown) |->
                                         NodeAt(L, shown[idx]).value[1]]]],
                  panic |-> "none"]

\* ------------------------------------------------------- OrderedSkipList
\* The OrderedSkipList is its SkipList `sk` and the flag `duplicatable`.

\* slip: the comparison is taken the other way round
OrdInsertStep_Reversed(ord) == IF ord = "Greater" THEN "forward" ELSE "down"

\* slip: the descent also passes the nodes equal to the value
OrdInsertStep_PastEqual(ord) == IF ord = "Greater" THEN "down" ELSE "forward"

\* which way insert goes at a next node whose value compares `ord` with the
\* value to insert
OrdInsertStep(ord) == IF ord = "Less" THEN "forward" ELSE "down"

\* the descent of OrderedSkipList::insert; st = [prev_ptrs, prev_indexs,
\* cur_ptr, cur_level, cur_index, has_equal]
RECURSIVE OrdInsertWalk(_, _, _)
OrdInsertWalk(L, st, value) ==
    LET lv == st.cur_level
        st0 == [st EXCEPT !.prev_ptrs = VecSet(@, lv, st.cur_ptr),
                          !.prev_indexs = VecSet(@, lv, st.cur_index)]
        cur == NodeAt(L, st.cur_ptr)
        next_ptr == VecGet(cur.links, lv)
        cur_len == VecGet(cur.links_len, lv)
        Down(s) == IF lv = 0 THEN s
                   ELSE OrdInsertWalk(L, Descend(s), value)
    IN  IF next_ptr = Null
        THEN Down(st0)
        ELSE LET ord == Cmp(Key(NodeAt(L, next_ptr).value[1]), Key(value))
             IN  IF OrdInsertStep(ord) = "forward"
                 THEN OrdInsertWalk(L, Forward(st0, next_ptr, st.cur_index + cur_len),
                                    value)
                 ELSE IF ord = "Equal"
                      THEN Down([st0 EXCEPT !.has_equal = TRUE])
                      ELSE Down(st0)

\* slip: the new node's span is one short
OrdInsertNodeSpan_OffByOne(prev_index, len, node_index) == prev_index + len - node_index

\* `node.links_len[i] = prev_indexs[i] + prev.links_len[i] + 1 - node_index`
OrdInsertNodeSpan(prev_index, len, node_index) == prev_index + len + 1 - node_index

\* `for i in 0..total_level` ("modify links"); st = [L, node]
RECURSIVE OrdInsertLinks(_, _, _, _, _)
OrdInsertLinks(st, w, i, level, node_index) ==
    IF i >= VecLen(w.prev_ptrs) THEN st
    ELSE LET p == VecGet(w.prev_ptrs, i)
             pi == VecGet(w.prev_indexs, i)
             prev == NodeAt(st.L, p)
             node_ptr == NewAddr(st.L)
             Go(s) == OrdInsertLinks(s, w, i + 1, level, node_index)
         IN  IF VecGet(prev.links, i) = Null /\ i > level
             THEN Go(st)
             ELSE IF VecGet(prev.links, i) = Null
             THEN Go([st EXCEPT !.L = SetNode(st.L, p,
                         [prev EXCEPT !.links = VecSet(@, i, node_ptr),
                                      !.links_len = VecSet(@, i, node_index - pi)])])
             ELSE IF i > level
             THEN Go([st EXCEPT !.L = SetNode(st.L, p,
                         [prev EXCEPT !.links_len = VecSet(@, i, VecGet(@, i) + 1)])])
             ELSE Go([st EXCEPT
                         !.node = [@ EXCEPT
                             !.links = VecSet(@, i, VecGet(prev.links, i)),
                             !.links_len = VecSet(@, i,
                                 OrdInsertNodeSpan(pi, VecGet(prev.links_len, i),
                                                   node_index))],
                         !.L = SetNode(st.L, p,
                             [prev EXCEPT !.links = VecSet(@, i, node_ptr),
                                          !.links_len = VecSet(@, i, node_index - pi)])])

\* OrderedSkipList::insert up to the end of its first loop
OrdInsertDescent(L, value, draw) ==
    LET L1 == Grown(L, draw).L
        total_level == VecLen(L1.head.links)
    IN  OrdInsertWalk(L1, [prev_ptrs |-> VecNew(Null, total_level),
                           prev_indexs |-> VecNew(0, total_level),
                           cur_ptr |-> HeadPtr, cur_index |-> 0,
                           cur_level |-> StartLevel(L1),
                           has_equal |-> FALSE, path |-> StartPath(L1)], value)

\* OrderedSkipList::insert
ord_insert(L, dup, value, draw) ==
    LET level == Grown(L, draw).level
        L1 == Grown(L, draw).L
        w == OrdInsertDescent(L, value, draw)
    IN  IF w.has_equal /\ ~dup
        THEN IF w.cur_ptr >= Len(L1.chain)
             THEN [sk |-> L1, ret |-> None, panic |-> "none"]
             ELSE LET r == replace(L1.chain[w.cur_ptr + 1], value)
                  IN  [sk |-> [L1 EXCEPT !.chain[w.cur_ptr + 1] = r.node],
                       ret |-> r.result, panic |-> "none"]
        ELSE LET node_index == VecGet(w.prev_indexs, 0) + 1
                 st == OrdInsertLinks([L |-> L1, node |-> NodeNew(Some(value), level + 1)],
                                      w, 0, level, node_index)
                 node == [st.node EXCEPT !.prev = w.cur_ptr]
                 L2 == SpliceIn(st.L, w.cur_ptr, node)
             IN  [sk |-> [L2 EXCEPT !.length = @ + 1], ret |-> None, panic |-> "none"]

\* which way get_first goes at a node whose value compares `ord` with q
GetFirstStep(ord) == IF ord = "Less" THEN "forward" ELSE "down"

\* the descent of get_first; st = [cur_ptr, cur_level, cur_index, has_equal]
RECURSIVE GetFirstWalk(_, _, _)
GetFirstWalk(L, st, q) ==
    LET lv == st.cur_level
        cur_node == NodeAt(L, st.cur_ptr)
        next_ptr == VecGet(cur_node.links, lv)
        Down(s) == IF lv = 0 THEN s ELSE GetFirstWalk(L, Descend(s), q)
    IN  IF next_ptr = Null
        THEN Down(st)
        ELSE LET ord == Cmp(Key(NodeAt(L, next_ptr).value[1]), q)
             IN  IF GetFirstStep(ord) = "forward"
                 THEN GetFirstWalk(L, Forward(st, next_ptr,
                                       st.cur_index + VecGet(cur_node.links_len, lv)), q)
                 ELSE Down([st EXCEPT !.has_equal = @ \/ ord = "Equal"])

\* get_first up to the end of its loop, on a list that is not empty
GetFirstDescent(L, q) ==
    GetFirstWalk(L, [cur_ptr |-> HeadPtr, cur_index |-> 0, cur_level |-> StartLevel(L),
                     has_equal |-> FALSE, path |-> StartPath(L)], q)

\* OrderedSkipList::get_first: None or Some(<<index, value>>)
get_first(L, q) ==
    IF L.length = 0 THEN None
    ELSE LET st == GetFirstDescent(L, q)
         IN  IF ~st.has_equal THEN None
             ELSE IF st.cur_ptr >= Len(L.chain) THEN None
             ELSE Some(<<st.cur_index, L.chain[st.cur_ptr + 1].value[1]>>)

\* slip: get_last stops in front of the equal nodes as get_first does
GetLastStep_StopAtEqual(ord) == IF ord = "Less" THEN "forward" ELSE "down"

\* which way get_last goes at a node whose value compares `ord` with q
GetLastStep(ord) == IF ord = "Greater" THEN "down" ELSE "forward"

\* the descent of get_last
RECURSIVE GetLastWalk(_, _, _)
GetLastWalk(L, st, q) ==
    LET lv == st.cur_level
        cur_node == NodeAt(L, st.cur_ptr)
        next_ptr == VecGet(cur_node.links, lv)
        Down(s) == IF lv = 0 THEN s ELSE GetLastWalk(L, Descend(s), q)
    IN  IF next_ptr = Null
        THEN Down(st)
        ELSE LET ord == Cmp(Key(NodeAt(L, next_ptr).value[1]), q)
             IN  IF GetLastStep(ord) = "forward"
                 THEN GetLastWalk(L, [Forward(st, next_ptr,
                                          st.cur_index + VecGet(cur_node.links_len, lv))
                                      EXCEPT !.has_equal = @ \/ ord = "Equal"], q)
                 ELSE Down(st)

\* get_last up to the end of its loop, on a list that is not empty
GetLastDescent(L, q) ==
    GetLastWalk(L, [cur_ptr |-> HeadPtr, cur_index |-> 0, cur_level |-> StartLevel(L),
                    has_equal |-> FALSE, path |-> StartPath(L)], q)

\* OrderedSkipList::get_last: None or Some(<<index, value>>)
get_last(L, q) ==
    IF L.length = 0 THEN None
    ELSE LET st == GetLastDescent(L, q)
         IN  IF ~st.has_equal THEN None
             ELSE IF NodeAt(L, st.cur_ptr).value = None THEN None
             ELSE Some(<<st.cur_index - 1, NodeAt(L, st.cur_ptr).value[1]>>)

remove_first(L, q, np) ==
    LET first == get_first(L, q)
    IN  IF first = None THEN [sk |-> L, ret |-> None, panic |-> "none"]
        ELSE remove(L, first[1][1], np)

\* slip: remove_last looks the element up with get_first
remove_last_First(L, q, np) == remove_first(L, q, np)

remove_last(L, q, np) ==
    LET lst == get_last(L, q)
    IN  IF lst = None THEN [sk |-> L, ret |-> None, panic |-> "none"]
        ELSE remove(L, lst[1][1], np)

\* slip: the end of the removed range is the index of the last equal element
RemoveValueRight_Inclusive(index) == index

\* `Some((index, _)) => index + 1`: the exclusive end of the removed range
RemoveValueRight(index) == index + 1

remove_value(L, q) ==
    LET first == get_first(L, q)
        lst == get_last(L, q)
    IN  IF first = None THEN [sk |-> L, ret |-> Some(0), panic |-> "none"]
        ELSE IF lst = None THEN [sk |-> L, ret |-> None, panic |-> "unreachable"]
        ELSE remove_range(L, Included(first[1][1]), Excluded(RemoveValueRight(lst[1][1])))

\* ------------------------------------------------ ranges by value bounds
\* slip: _index_not_less steps over the elements equal to q as well
IndexNotLessStep_PastEqual(ord) == IF ord = "Less" THEN "down" ELSE "forward"

\* which way _index_not_less goes when q compares `ord` with the next value
IndexNotLessStep(ord) == IF ord = "Greater" THEN "forward" ELSE "down"

\* which way _index_not_less_or_equal goes
IndexNotLessOrEqualStep(ord) == IF ord = "Less" THEN "down" ELSE "forward"

\* the loop of both index helpers; st = [cur_ptr, cur_level, cur_index];
\* strict chooses the helper: TRUE is _index_not_less_or_equal
RECURSIVE IndexWalk(_, _, _, _)
IndexWalk(L, st, q, strict) ==
    LET lv == st.cur_level
        cur_node == NodeAt(L, st.cur_ptr)
        next_ptr == VecGet(cur_node.links, lv)
        Down == IF lv = 0 THEN st.cur_index
                ELSE IndexWalk(L, [st EXCEPT !.cur_level = lv - 1], q, strict)
    IN  IF next_ptr = Null
        THEN Down
        ELSE LET ord == Cmp(q, Key(NodeAt(L, next_ptr).value[1]))
                 way == IF strict THEN IndexNotLessOrEqualStep(ord)
                        ELSE IndexNotLessStep(ord)
             IN  IF way = "forward"
                 THEN IndexWalk(L, [st EXCEPT !.cur_ptr = next_ptr,
                                       !.cur_index = @ + VecGet(cur_node.links_len, lv)],
                                q, strict)
                 ELSE Down

\* the panic of both index helpers on an empty list
EmptyStructure == "Can't get index from empty skiplist."

\* the index of the first element not less than q, or the helper's panic
_index_not_less(L, q) ==
    IF L.length = 0 THEN [index |-> 0, panic |-> EmptyStructure]
    ELSE [index |-> IndexWalk(L, [cur_ptr |-> HeadPtr, cur_index |-> 0,
                                  cur_level |-> VecLen(L.head.links) - 1], q, FALSE),
          panic |-> "none"]

\* the index of the first element greater than q, or the helper's panic
_index_not_less_or_equal(L, q) ==
    IF L.length = 0 THEN [index |-> 0, panic |-> EmptyStructure]
    ELSE [index |-> IndexWalk(L, [cur_ptr |-> HeadPtr, cur_index |-> 0,
                                  cur_level |-> VecLen(L.head.links) - 1], q, TRUE),
          panic |-> "none"]

\* `let left = match range.start_bound()`
OrdRangeLeft(L, start) ==
    CASE start.kind = "Unbounded" -> [index |-> 0, panic |-> "none"]
      [] start.kind = "Included" -> _index_not_less(L, start.i)
      [] start.kind = "Excluded" -> _index_not_less_or_equal(L, start.i)

\* `let right = match range.end_bound()`
OrdRangeRight(L, end) ==
    CASE end.kind = "Unbounded" -> [index |-> L.length, panic |-> "none"]
      [] end.kind = "Included" -> _index_not_less_or_equal(L, end.i)
      [] end.kind = "Excluded" -> _index_not_less(L, end.i)

\* slip: the value bounds are translated on an empty list too
OrdRangeEmpty_Never(L) == FALSE

\* `if self.len() == 0 { return self.sk.range(0..0); }`
OrdRangeEmpty(L) == L.length = 0

\* OrderedSkipList::range
ord_range(L, start, end) ==
    IF OrdRangeEmpty(L) THEN range(L, Included(0), Excluded(0))
    ELSE LET left == OrdRangeLeft(L, start)
             right == OrdRangeRight(L, end)
         IN  IF left.panic # "none" THEN [items |-> <<>>, panic |-> left.panic]
             ELSE IF right.panic # "none" THEN [items |-> <<>>, panic |-> right.panic]
             ELSE range(L, Included(left.index), Excluded(right.index))

\* OrderedSkipList::reverse_range
ord_reverse_range(L, start, end) ==
    IF OrdRangeEmpty(L) THEN reverse_range(L, Included(0), Excluded(0))
    ELSE LET left == OrdRangeLeft(L, start)
             right == OrdRangeRight(L, end)
         IN  IF left.panic # "none" THEN [items |-> <<>>, panic |-> left.panic]
             ELSE IF right.panic # "none" THEN [items |-> <<>>, panic |-> right.panic]
             ELSE reverse_range(L, Included(left.index), Excluded(right.index))

\* --------------------------------------------------------------- SkipSet
\* A SkipSet is an OrderedSkipList that is not duplicatable.
\* slip: the set is built on a duplicatable list
add_Duplicatable(L, value, draw) == ord_insert(L, TRUE, value, draw)

add(L, value, draw) == ord_insert(L, FALSE, value, draw)

set_get(L, q) ==
    LET r == get_first(L, q) IN IF r = None THEN None ELSE Some(r[1][2])

set_remove(L, q, np) == remove_first(L, q, np)

contains(L, q) == set_get(L, q) # None

cardinal(L) == L.length

remove_min(L, np) == pop_front(L, np)

remove_max(L, np) == pop_back(L, np)

\* ------------------------------------------------------- set operations
\* An iterator pair is modelled by the items not yet consumed: a[1] is
\* lhs_value and Tail(a) what lhs_iter still yields; <<>> is lhs_value = None.
\* Each arm of a `match self.lhs_value.cmp(&self.rhs_value)` gives the item
\* returned (<<>> when the loop goes on) and the iterators afterwards.
Arm(yield, a, b) == [yield |-> yield, lhs |-> a, rhs |-> b]

\* slip: the Equal arm of Union leaves rhs_value in place
UnionOnEqual_KeepRhs(a, b) == Arm(<<a[1]>>, Tail(a), b)

\* Union::next, Ordering::Equal
UnionOnEqual(a, b) == Arm(<<a[1]>>, Tail(a), Tail(b))

\* Union::next run until it returns None
RECURSIVE UnionNext(_, _)
UnionNext(a, b) ==
    IF a = <<>> /\ b = <<>> THEN <<>>
    ELSE IF a = <<>> THEN <<b[1]>> \o UnionNext(a, Tail(b))
    ELSE IF b = <<>> THEN <<a[1]>> \o UnionNext(Tail(a), b)
    ELSE LET ord == Cmp(Key(a[1]), Key(b[1]))
             arm == CASE ord = "Equal" -> UnionOnEqual(a, b)
                      [] ord = "Greater" -> Arm(<<b[1]>>, a, Tail(b))
                      [] ord = "Less" -> Arm(<<a[1]>>, Tail(a), b)
         IN  arm.yield \o UnionNext(arm.lhs, arm.rhs)

union(A, B) == UnionNext(iter(A), iter(B))

\* SymmetricDifference::next run until it returns None
RECURSIVE SymmetricDifferenceNext(_, _)
SymmetricDifferenceNext(a, b) ==
    IF a = <<>> /\ b = <<>> THEN <<>>
    ELSE IF a = <<>> THEN <<b[1]>> \o SymmetricDifferenceNext(a, Tail(b))
    ELSE IF b = <<>> THEN <<a[1]>> \o SymmetricDifferenceNext(Tail(a), b)
    ELSE LET ord == Cmp(Key(a[1]), Key(b[1]))
             arm == CASE ord = "Equal" -> Arm(<<>>, Tail(a), Tail(b))
                      [] ord = "Greater" -> Arm(<<b[1]>>, a, Tail(b))
                      [] ord = "Less" -> Arm(<<a[1]>>, Tail(a), b)
         IN  arm.yield \o SymmetricDifferenceNext(arm.lhs, arm.rhs)

symmetric_difference(A, B) == SymmetricDifferenceNext(iter(A), iter(B))

\* slip: the Greater arm of DifferenceTraverse returns the lhs value
DifferenceTraverseOnGreater_Yield(a, b) == Arm(<<a[1]>>, Tail(a), b)

\* DifferenceTraverse::next, Ordering::Greater
DifferenceTraverseOnGreater(a, b) == Arm(<<>>, a, Tail(b))

\* DifferenceTraverse::next run until it returns None
RECURSIVE DifferenceTraverseNext(_, _)
DifferenceTraverseNext(a, b) ==
    IF a = <<>> THEN <<>>
    ELSE IF b = <<>> THEN <<a[1]>> \o DifferenceTraverseNext(Tail(a), b)
    ELSE LET ord == Cmp(Key(a[1]), Key(b[1]))
             arm == CASE ord = "Equal" -> Arm(<<>>, Tail(a), Tail(b))
                      [] ord = "Greater" -> DifferenceTraverseOnGreater(a, b)
                      [] ord = "Less" -> Arm(<<a[1]>>, Tail(a), b)
         IN  arm.yield \o DifferenceTraverseNext(arm.lhs, arm.rhs)

difference_traverse(A, B) == DifferenceTraverseNext(iter(A), iter(B))

\* DifferenceSearch::next run until it returns None
RECURSIVE DifferenceSearchNext(_, _)
DifferenceSearchNext(a, B) ==
    IF a = <<>> THEN <<>>
    ELSE (IF ~contains(B, Key(a[1])) THEN <<a[1]>> ELSE <<>>)
         \o DifferenceSearchNext(Tail(a), B)

difference_search(A, B) == DifferenceSearchNext(iter(A), B)

\* SkipSet::levels
levels(A) == VecLen(A.head.links)

\* `self.cardinal() * rhs.levels() < rhs.cardinal()`: search, else traverse
UseSearch(A, B) == cardinal(A) * levels(B) < cardinal(B)

difference(A, B) ==
    IF UseSearch(A, B) THEN difference_search(A, B) ELSE difference_traverse(A, B)

\* IntersectionTraverse::next run until it returns None
RECURSIVE IntersectionTraverseNext(_, _)
IntersectionTraverseNext(a, b) ==
    IF a = <<>> \/ b = <<>> THEN <<>>
    ELSE LET ord == Cmp(Key(a[1]), Key(b[1]))
             arm == CASE ord = "Equal" -> Arm(<<a[1]>>, Tail(a), Tail(b))
                      [] ord = "Greater" -> Arm(<<>>, a, Tail(b))
                      [] ord = "Less" -> Arm(<<>>, Tail(a), b)
         IN  arm.yield \o IntersectionTraverseNext(arm.lhs, arm.rhs)

intersection_traverse(A, B) == IntersectionTraverseNext(iter(A), iter(B))

\* IntersectionSearch::next run until it returns None
RECURSIVE IntersectionSearchNext(_, _)
IntersectionSearchNext(a, B) ==
    IF a = <<>> THEN <<>>
    ELSE (IF contains(B, Key(a[1])) THEN <<a[1]>> ELSE <<>>)
         \o IntersectionSearchNext(Tail(a), B)

intersection_search(A, B) == IntersectionSearchNext(iter(A), B)

\* SkipSet::intersection: the smaller set becomes lhs, then the strategy
intersection(A, B) ==
    LET lhs == IF cardinal(B) < cardinal(A) THEN B ELSE A
        rhs0 == IF cardinal(B) < cardinal(A) THEN A ELSE B
    IN  IF UseSearch(lhs, rhs0) THEN intersection_search(lhs, rhs0)
        ELSE intersection_traverse(lhs, rhs0)

is_superset(A, B) == Len(intersection(A, B)) = cardinal(B)

\* slip: the count is compared with the cardinal of the other set
is_subset_OtherCardinal(A, B) == is_superset(A, B)

is_subset(A, B) == Len(intersection(A, B)) = cardinal(A)

\* ----------------------------------------------------------------- state
\* sk: the list; container: which type wraps it; duplicatable: the flag of
\* the OrderedSkipList; last: the latest call and its outcome; added: the keys
\* put into a SkipSet; hist: the values pushed and the results popped so far
\* in a run of push_back calls followed by pop_back calls; rhs: the list of a
\* second SkipSet, the argument of the set operations of the first
VARIABLES sk, container, duplicatable, added, last, hist, rhs

vars == <<sk, container, duplicatable, added, last, hist, rhs>>

NoHist == [pushed |-> <<>>, popped |-> <<>>]

Call(op, arg, r) == [op |-> op, arg |-> arg, ret |-> r.ret, panic |-> r.panic]

Init ==
    /\ sk = SkipListNew(LevelGeneratorNew(Levels))
    /\ container = "SkipList"
    /\ duplicatable = FALSE
    /\ added = {}
    /\ last = [op |-> "new", arg |-> <<>>, ret |-> None, panic |-> "none"]
    /\ hist = NoHist
    /\ rhs = SkipListNew(LevelGeneratorNew(Levels))

Insert ==
    \E index \in 0..(MaxLen + 1), value \in ListValues, draw \in 0..Levels :
        /\ Len(sk.chain) < MaxLen
        /\ LET r == insert(sk, index, value, draw)
           IN  /\ sk' = r.sk
               /\ last' = Call("insert", <<index, value>>, r)
        /\ UNCHANGED <<container, duplicatable, added, hist, rhs>>

PushFront ==
    \E value \in ListValues, draw \in 0..Levels :
        /\ Len(sk.chain) < MaxLen
        /\ LET r == push_front(sk, value, draw)
           IN  /\ sk' = r.sk
               /\ last' = Call("push_front", <<0, value>>, r)
        /\ UNCHANGED <<container, duplicatable, added, hist, rhs>>

PushBack ==
    \E value \in ListValues, draw \in 0..Levels :
        /\ Len(sk.chain) < MaxLen
        /\ LET r == push_back(sk, value, draw)
           IN  /\ sk' = r.sk
               /\ last' = Call("push_back", <<sk.length, value>>, r)
        /\ UNCHANGED <<container, duplicatable, added, hist, rhs>>

Remove ==
    \E index \in 0..(MaxLen + 1), np \in BuildChoices(sk) :
        /\ LET r == remove(sk, index, np)
           IN  /\ sk' = r.sk
               /\ last' = Call("remove", <<index>>, r)
        /\ UNCHANGED <<container, duplicatable, added, hist, rhs>>

PopFront ==
    \E np \in BuildChoices(sk) :
        /\ LET r == pop_front(sk, np)
           IN  /\ sk' = r.sk
               /\ last' = Call("pop_front", <<0>>, r)
        /\ UNCHANGED <<container, duplicatable, added, hist, rhs>>

PopBack ==
    \E np \in BuildChoices(sk) :
        /\ LET r == pop_back(sk, np)
           IN  /\ sk' = r.sk
               /\ last' = Call("pop_back", <<sk.length - 1>>, r)
        /\ UNCHANGED <<container, duplicatable, added, hist, rhs>>

\* the bounds of a..b, a..=b, a.., ..b, ..=b and ..
StartBounds == {Unbounded} \cup {Included(i) : i \in 0..MaxLen}

EndBounds == {Unbounded} \cup {Included(i) : i \in 0..MaxLen}
                         \cup {Excluded(i) : i \in 0..MaxLen}

RemoveRange ==
    \E start \in StartBounds, end \in EndBounds :
        /\ LET r == remove_range(sk, start, end)
               n == _normalize_range(sk, start, end)
           IN  /\ sk' = r.sk
               /\ last' = Call("remove_range", <<n.left, n.right>>, r)
        /\ UNCHANGED <<container, duplicatable, added, hist, rhs>>

Next ==
    \/ Insert
    \/ PushFront
    \/ PushBack
    \/ Remove
    \/ PopFront
    \/ PopBack
    \/ RemoveRange

Spec == Init /\ [][Next]_vars

\* ---------------------------------------- OrderedSkipList and SkipSet runs
InitOrd ==
    /\ sk = SkipListNew(LevelGeneratorNew(Levels))
    /\ \/ container = "OrderedSkipList" /\ duplicatable \in BOOLEAN
       \/ container = "SkipSet" /\ duplicatable = FALSE
    /\ added = {}
    /\ last = [op |-> "new", arg |-> <<>>, ret |-> None, panic |-> "none"]
    /\ hist = NoHist
    /\ rhs = SkipListNew(LevelGeneratorNew(Levels))

OrdInsert ==
    \E value \in Values, draw \in 0..Levels :
        /\ container = "OrderedSkipList"
        /\ Len(sk.chain) < MaxLen \/ (~duplicatable /\ get_first(sk, Key(value)) # None)
        /\ LET r == ord_insert(sk, duplicatable, value, draw)
           IN  /\ sk' = r.sk
               /\ last' = Call("insert", <<value>>, r)
        /\ UNCHANGED <<container, duplicatable, added, hist, rhs>>

OrdRemove ==
    \E index \in 0..(MaxLen + 1), np \in BuildChoices(sk) :
        /\ container = "OrderedSkipList"
        /\ LET r == remove(sk, index, np)
           IN  /\ sk' = r.sk
               /\ last' = Call("remove", <<index>>, r)
        /\ UNCHANGED <<container, duplicatable, added, hist, rhs>>

RemoveFirst ==
    \E q \in Queries, np \in BuildChoices(sk) :
        /\ container = "OrderedSkipList"
        /\ LET r == remove_first(sk, q, np)
           IN  /\ sk' = r.sk
               /\ last' = Call("remove_first", <<q>>, r)
        /\ UNCHANGED <<container, duplicatable, added, hist, rhs>>

RemoveLast ==
    \E q \in Queries, np \in BuildChoices(sk) :
        /\ container = "OrderedSkipList"
        /\ LET r == remove_last(sk, q, np)
           IN  /\ sk' = r.sk
               /\ last' = Call("remove_last", <<q>>, r)
        /\ UNCHANGED <<container, duplicatable, added, hist, rhs>>

RemoveValue ==
    \E q \in Queries :
        /\ container = "OrderedSkipList"
        /\ LET r == remove_value(sk, q)
           IN  /\ sk' = r.sk
               /\ last' = Call("remove_value", <<q>>, r)
        /\ UNCHANGED <<container, duplicatable, added, hist, rhs>>

OrdPopFront ==
    \E np \in BuildChoices(sk) :
        /\ container = "OrderedSkipList"
        /\ LET r == pop_front(sk, np)
           IN  /\ sk' = r.sk
               /\ last' = Call("pop_front", <<>>, r)
        /\ UNCHANGED <<container, duplicatable, added, hist, rhs>>

OrdPopBack ==
    \E np \in BuildChoices(sk) :
        /\ container = "OrderedSkipList"
        /\ LET r == pop_back(sk, np)
           IN  /\ sk' = r.sk
               /\ last' = Call("pop_back", <<>>, r)
        /\ UNCHANGED <<container, duplicatable, added, hist, rhs>>

\* `added` is the set of keys added to the SkipSet and not removed since
SetMin(S) == CHOOSE x \in S : \A y \in S : x <= y

SetMax(S) == CHOOSE x \in S : \A y \in S : x >= y

Add ==
    \E value \in Values, draw \in 0..Levels :
        /\ container = "SkipSet"
        /\ Len(sk.chain) < MaxLen \/ contains(sk, Key(value))
        /\ LET r == add(sk, value, draw)
           IN  /\ sk' = r.sk
               /\ last' = Call("add", <<value>>, r)
        /\ added' = added \cup {Key(value)}
        /\ UNCHANGED <<container, duplicatable, hist, rhs>>

SetRemove ==
    \E q \in Queries, np \in BuildChoices(sk) :
        /\ container = "SkipSet"
        /\ LET r == set_remove(sk, q, np)
           IN  /\ sk' = r.sk
               /\ last' = Call("set_remove", <<q>>, r)
        /\ added' = added \ {q}
        /\ UNCHANGED <<container, duplicatable, hist, rhs>>

RemoveMin ==
    \E np \in BuildChoices(sk) :
        /\ container = "SkipSet"
        /\ LET r == remove_min(sk, np)
           IN  /\ sk' = r.sk
               /\ last' = Call("remove_min", <<>>, r)
        /\ added' = IF added = {} THEN {} ELSE added \ {SetMin(added)}
        /\ UNCHANGED <<container, duplicatable, hist, rhs>>

RemoveMax ==
    \E np \in BuildChoices(sk) :
        /\ container = "SkipSet"
        /\ LET r == remove_max(sk, np)
           IN  /\ sk' = r.sk
               /\ last' = Call("remove_max", <<>>, r)
        /\ added' = IF added = {} THEN {} ELSE added \ {SetMax(added)}
        /\ UNCHANGED <<container, duplicatable, hist, rhs>>

NextOrd ==
    \/ OrdInsert
    \/ OrdRemove
    \/ RemoveFirst
    \/ RemoveLast
    \/ RemoveValue
    \/ OrdPopFront
    \/ OrdPopBack
    \/ Add
    \/ SetRemove
    \/ RemoveMin
    \/ RemoveMax

SpecOrd == InitOrd /\ [][NextOrd]_vars

\* ------------------------- push_back calls followed by pop_back calls
PushBackRun ==
    \E value \in ListValues, draw \in 0..Levels :
        /\ hist.popped = <<>>
        /\ Len(sk.chain) < MaxLen
        /\ LET r == push_back(sk, value, draw)
           IN  /\ sk' = r.sk
               /\ last' = Call("push_back", <<sk.length, value>>, r)
        /\ hist' = [hist EXCEPT !.pushed = Append(@, value)]
        /\ UNCHANGED <<container, duplicatable, added, rhs>>

PopBackRun ==
    \E np \in BuildChoices(sk) :
        /\ Len(hist.popped) <= Len(hist.pushed)
        /\ LET r == pop_back(sk, np)
           IN  /\ sk' = r.sk
               /\ last' = Call("pop_back", <<>>, r)
               /\ hist' = [hist EXCEPT !.popped = Append(@, r.ret)]
        /\ UNCHANGED <<container, duplicatable, added, rhs>>

NextRun ==
    \/ PushBackRun
    \/ PopBackRun

SpecRun == Init /\ [][NextRun]_vars

\* ------------------------------------- lists with equal values and dedup
\* payloads with two values that compare equal and one that differs
DedupValues == {<<1, 0>>, <<1, 1>>, <<2, 0>>}

DedupPushBack ==
    \E value \in DedupValues, draw \in 0..Levels :
        /\ Len(sk.chain) < MaxLen + 1
        /\ LET r == push_back(sk, value, draw)
           IN  /\ sk' = r.sk
               /\ last' = Call("push_back", <<sk.length, value>>, r)
        /\ UNCHANGED <<container, duplicatable, added, hist, rhs>>

Dedup ==
    /\ LET r == dedup(sk)
       IN  /\ sk' = r.sk
           /\ last' = Call("dedup", <<iter(sk)>>, r)
    /\ UNCHANGED <<container, duplicatable, added, hist, rhs>>

NextDedup ==
    \/ DedupPushBack
    \/ Dedup

SpecDedup == Init /\ [][NextDedup]_vars

\* ----------------------------------------- long lists and explain
\* the longest list of these runs: two more elements than explain shows
ExplainLen == MAX_SPAN + 2

\* the first elements vary in value and level, the later ones do not
ExplainPushBack ==
    \E value \in (IF Len(sk.chain) < MaxLen - 1 THEN ListValues ELSE {<<1, 0>>}),
       draw \in (IF Len(sk.chain) < MaxLen - 1 THEN 0..Levels ELSE {0}) :
        /\ Len(sk.chain) < ExplainLen
        /\ LET r == push_back(sk, value, draw)
           IN  /\ sk' = r.sk
               /\ last' = Call("push_back", <<sk.length, value>>, r)
        /\ UNCHANGED <<container, duplicatable, added, hist, rhs>>

ExplainStarts == {Unbounded, Included(1), Included(2)}

ExplainEnds == {Unbounded, Excluded(0), Excluded(MAX_SPAN), Included(MAX_SPAN),
                Excluded(MAX_SPAN + 2)}

Explain ==
    \E start \in ExplainStarts, end \in ExplainEnds :
        /\ last' = Call("explain", <<start, end>>, explain(sk, start, end))
        /\ UNCHANGED <<sk, container, duplicatable, added, hist, rhs>>

NextExplain ==
    \/ ExplainPushBack
    \/ Explain

SpecExplain == Init /\ [][NextExplain]_vars

\* ------------------------------------------------------- two SkipSets
\* the elements of the first set carry tag 0, those of the second tag 1
InitSets ==
    /\ sk = SkipListNew(LevelGeneratorNew(Levels))
    /\ rhs = SkipListNew(LevelGeneratorNew(Levels))
    /\ container = "SkipSet"
    /\ duplicatable = FALSE
    /\ added = {}
    /\ last = [op |-> "new", arg |-> <<>>, ret |-> None, panic |-> "none"]
    /\ hist = NoHist

AddLhs ==
    \E k \in Keys, draw \in 0..Levels :
        /\ Len(sk.chain) < MaxLen \/ contains(sk, k)
        /\ sk' = add(sk, <<k, 0>>, draw).sk
        /\ UNCHANGED <<rhs, container, duplicatable, added, last, hist>>

AddRhs ==
    \E k \in Keys, draw \in 0..Levels :
        /\ Len(rhs.chain) < MaxLen \/ contains(rhs, k)
        /\ rhs' = add(rhs, <<k, 1>>, draw).sk
        /\ UNCHANGED <<sk, container, duplicatable, added, last, hist>>

RemoveLhs ==
    \E q \in Keys, np \in BuildChoices(sk) :
        /\ sk' = set_remove(sk, q, np).sk
        /\ UNCHANGED <<rhs, container, duplicatable, added, last, hist>>

RemoveRhs ==
    \E q \in Keys, np \in BuildChoices(rhs) :
        /\ rhs' = set_remove(rhs, q, np).sk
        /\ UNCHANGED <<sk, container, duplicatable, added, last, hist>>

NextSets ==
    \/ AddLhs
    \/ AddRhs
    \/ RemoveLhs
    \/ RemoveRhs

SpecSets == InitSets /\ [][NextSets]_vars

\* ------------------------------ the runs of all three containers together
InitAll == Init \/ InitOrd

NextAll ==
    \/ container = "SkipList" /\ Next
    \/ NextOrd

SpecAll == InitAll /\ [][NextAll]_vars

\* ------------------------- generators used before the list is constructed
\* LevelGenerator::choose called on the generator before it is handed to
\* with_level_generator / with_config: the list is still as constructed
ChooseBefore ==
    \E draw \in 0..Levels :
        /\ last.op = "new"
        /\ sk' = [sk EXCEPT !.level_generator = choose(@, draw).lg]
        /\ UNCHANGED <<container, duplicatable, added, last, hist, rhs>>

NextGen ==
    \/ ChooseBefore
    \/ NextAll

SpecGen == InitAll /\ [][NextGen]_vars

\* ------------------------------------------- the level generator on its own
\* A generator made by with_config with any level count, and a second one
\* that Clone makes of it; they are kept in the generator fields of sk and
\* rhs.  `added` names the generators choose() was called on since they were
\* made.
InitLg ==
    /\ \E l \in 0..Levels :
           /\ sk = SkipListNew(LevelGeneratorNew(l))
           /\ rhs = SkipListNew(LevelGeneratorNew(l))
    /\ container = "LevelGenerator"
    /\ duplicatable = FALSE
    /\ added = {}
    /\ last = [op |-> "new", arg |-> <<>>, ret |-> None, panic |-> "none"]
    /\ hist = NoHist

Generators == {"lg", "copy"}

Gen(g) == IF g = "lg" THEN sk.level_generator ELSE rhs.level_generator

\* the two builds: with overflow checks (debug) and without (release)
Builds == {"checked", "unchecked"}

LgChoose ==
    \E g \in Generators, draw \in 0..(Levels + 1), build \in Builds :
        LET c == choose(Gen(g), draw)
            panics == c.overflow /\ build = "checked"
            lg1 == IF panics THEN Gen(g) ELSE c.lg
        IN  /\ sk' = IF g = "lg" THEN [sk EXCEPT !.level_generator = lg1] ELSE sk
            /\ rhs' = IF g = "copy" THEN [rhs EXCEPT !.level_generator = lg1] ELSE rhs
            /\ last' = [op |-> "choose", arg |-> <<g, draw>>,
                        ret |-> IF panics THEN None ELSE Some(c.level),
                        panic |-> IF panics THEN "attempt to subtract with overflow"
                                  ELSE "none"]
            /\ added' = added \cup {g}
            /\ UNCHANGED <<container, duplicatable, hist>>

LgShrink ==
    \E g \in Generators :
        LET lg1 == shrink(Gen(g))
        IN  /\ sk' = IF g = "lg" THEN [sk EXCEPT !.level_generator = lg1] ELSE sk
            /\ rhs' = IF g = "copy" THEN [rhs EXCEPT !.level_generator = lg1] ELSE rhs
            /\ last' = [op |-> "shrink", arg |-> <<g>>,
                        ret |-> Some(lg1.cur_level_limit), panic |-> "none"]
            /\ UNCHANGED <<container, duplicatable, added, hist>>

LgClone ==
    /\ rhs' = [rhs EXCEPT !.level_generator = clone(sk.level_generator)]
    /\ last' = [op |-> "clone", arg |-> <<"lg">>, ret |-> None, panic |-> "none"]
    /\ added' = added \ {"copy"}
    /\ UNCHANGED <<sk, container, duplicatable, hist>>

NextLg ==
    \/ LgChoose
    \/ LgShrink
    \/ LgClone

SpecLg == InitLg /\ [][NextLg]_vars

\* ================================================================ claims
InsertOps == {"insert", "push_front", "push_back"}

RemoveOps == {"remove", "pop_front", "pop_back"}

\* the call recorded in last' returned normally
Returned(ops) == last'.op \in ops /\ last'.panic = "none"

\* s with the elements at the 0-based indices left..right-1 taken out
WithoutRange(s, left, right) == SubSeq(s, 1, left) \o SubSeq(s, right + 1, Len(s))

\* s with v put at the 0-based index i
WithInserted(s, i, v) == SubSeq(s, 1, i) \o <<v>> \o SubSeq(s, i + 1, Len(s))

\* some link of the head jumps over at least one node
HasLongLink == \E l \in DOMAIN sk.head.links_len : sk.head.links_len[l] >= 2

\* C1: in every reachable SkipList, get(i) for every i < len() returns the
\* value of the node reached by i+1 `next` steps from the head, and _get_ptr
\* stops at that very node.
C1_GetFollowsChain ==
    \A i \in 0..(sk.length - 1) :
        /\ i + 1 \in DOMAIN sk.chain
        /\ _get_ptr(sk, i) = i + 1
        /\ get(sk, i) = [ret |-> Some(iter(sk)[i + 1]), panic |-> "none"]

C1_Witness ==
    /\ sk.length >= 2
    /\ HasLongLink
    /\ last.op = "remove" /\ last.panic = "none"
    /\ get(sk, 1).ret = sk.chain[2].value

\* C3: len() is always the number of nodes in the level-0 chain, and every
\* call changes it by the number of elements it inserted minus the number it
\* removed: +1 for insert/push, -1 for remove and a pop that returns a value,
\* minus the returned count for remove_range, 0 for a pop on an empty list.
C3_LengthStep ==
    /\ Returned(InsertOps) => sk'.length = sk.length + 1
    /\ Returned(RemoveOps) /\ last'.ret # None => sk'.length = sk.length - 1
    /\ Returned(RemoveOps) /\ last'.ret = None => sk'.length = sk.length
    /\ Returned({"remove_range"}) =>
           /\ last'.ret = Some(Len(sk.chain) - Len(sk'.chain))
           /\ sk'.length = sk.length - last'.ret[1]

C3_Length == [](sk.length = Len(sk.chain)) /\ [][C3_LengthStep]_vars

C3_Witness ==
    /\ last.op = "remove_range" /\ last.panic = "none" /\ last.ret = Some(2)
    /\ sk.length = 1

\* C4: after insert(i, v) on a list of length n with i <= n: get(i) = v,
\* get(j) is unchanged for j < i, get(j+1) is the old get(j) for i <= j < n,
\* and len() = n+1.
C4_InsertStep ==
    Returned(InsertOps) =>
        LET i == last'.arg[1]
            v == last'.arg[2]
            n == sk.length
        IN  /\ i <= n
            /\ get(sk', i) = [ret |-> Some(v), panic |-> "none"]
            /\ \A j \in 0..(i - 1) : get(sk', j) = get(sk, j)
            /\ \A j \in i..(n - 1) : get(sk', j + 1) = get(sk, j)
            /\ sk'.length = n + 1

C4_Insert == [][C4_InsertStep]_vars

C4_Witness ==
    /\ last.op = "insert" /\ last.panic = "none"
    /\ last.arg[1] = 1 /\ sk.length >= 3
    /\ VecLen(sk.chain[2].links) = 1
    /\ HasLongLink

\* C5: remove(i) with i < n returns the element get(i) returned before,
\* afterwards get(j) is unchanged for j < i, get(j) is the old get(j+1) for
\* i <= j < n-1, and len() = n-1.
C5_RemoveStep ==
    Returned(RemoveOps) /\ last'.arg[1] \in 0..(sk.length - 1) =>
        LET i == last'.arg[1]
            n == sk.length
        IN  /\ [ret |-> last'.ret, panic |-> "none"] = get(sk, i)
            /\ \A j \in 0..(i - 1) : get(sk', j) = get(sk, j)
            /\ \A j \in i..(n - 2) : get(sk', j) = get(sk, j + 1)
            /\ sk'.length = n - 1

C5_Remove == [][C5_RemoveStep]_vars

C5_Witness ==
    /\ last.op = "remove" /\ last.panic = "none" /\ last.arg[1] = 1
    /\ sk.length >= 2
    /\ HasLongLink

\* C6: a remove_range whose range normalises to [left, right), left <= right,
\* returns right-left, len() drops by that amount, the remaining sequence
\* is the old one without the elements at left..right-1 (get(left) is the old
\* get(right)); with left = right it returns 0 and changes nothing.
C6_RemoveRangeStep ==
    Returned({"remove_range"}) =>
        LET left == last'.arg[1]
            right == last'.arg[2]
        IN  /\ left <= right
            /\ last'.ret = Some(right - left)
            /\ sk'.length = sk.length - (right - left)
            /\ iter(sk') = WithoutRange(iter(sk), left, right)
            /\ \A j \in 0..(left - 1) : get(sk', j) = get(sk, j)
            /\ \A j \in left..(sk.length - 1) : get(sk', j) = get(sk, j + (right - left))
            /\ left = right => sk' = sk

C6_RemoveRange == [][C6_RemoveRangeStep]_vars

C6_Witness ==
    /\ last.op = "remove_range" /\ last.panic = "none"
    /\ last.arg = <<1, 2>> /\ last.ret = Some(1)
    /\ sk.length = 2
    /\ HasLongLink

\* the keys of the elements in iteration order
IterKeys == [i \in DOMAIN iter(sk) |-> Key(iter(sk)[i])]

\* the 1-based positions of the elements of s that compare equal to q
EqualAt(s, q) == {j \in DOMAIN s : Key(s[j]) = q}

\* the number of elements of s that compare less than q
LessCount(s, q) == Cardinality({j \in DOMAIN s : Key(s[j]) < q})

\* the number of elements of s that compare less than or equal to q
LessEqualCount(s, q) == Cardinality({j \in DOMAIN s : Key(s[j]) <= q})

\* C2: in an OrderedSkipList (duplicatable or not, also a SkipSet), after any
\* inserts and removals, iter() yields the values in non-decreasing order and
\* reverse_iter() yields as many values in non-increasing order.
C2_Ordered ==
    LET f == iter(sk)
        r == reverse_iter(sk)
    IN  /\ \A i \in 1..(Len(f) - 1) : Key(f[i]) <= Key(f[i + 1])
        /\ Len(r) = Len(f)
        /\ \A i \in 1..(Len(r) - 1) : Key(r[i]) >= Key(r[i + 1])

C2_Witness ==
    /\ container = "OrderedSkipList" /\ duplicatable
    /\ last.op = "insert" /\ last.ret = None
    /\ sk.length >= 3
    /\ IterKeys[1] < IterKeys[3]
    /\ last.arg[1] = iter(sk)[2]
    /\ HasLongLink

\* C7: in a list that is not duplicatable (OrderedSkipList::insert and
\* SkipSet::add), inserting a value equal to an existing element leaves len()
\* unchanged, returns Some(the value stored before) and stores the new value
\* in its place; inserting a value with no equal element returns None and
\* increases len() by one.
C7_ReplaceStep ==
    Returned({"insert", "add"}) /\ ~duplicatable =>
        LET v == last'.arg[1]
            old == iter(sk)
            eq == EqualAt(old, Key(v))
        IN  IF eq # {}
            THEN /\ sk'.length = sk.length
                 /\ \E j \in eq : /\ last'.ret = Some(old[j])
                                  /\ iter(sk') = [old EXCEPT ![j] = v]
            ELSE /\ last'.ret = None
                 /\ sk'.length = sk.length + 1
                 /\ EqualAt(iter(sk'), Key(v)) # {}

C7_Replace == [][C7_ReplaceStep]_vars

C7_Witness ==
    /\ container = "SkipSet"
    /\ last.op = "add" /\ last.ret # None
    /\ last.ret # Some(last.arg[1])
    /\ sk.length >= 2
    /\ set_get(sk, Key(last.arg[1])) = Some(last.arg[1])

\* C8 as stated: in a duplicatable list every insert returns None, increases
\* len() by one and puts the value after all existing equal elements.
C8_StableStep ==
    Returned({"insert"}) /\ duplicatable =>
        LET v == last'.arg[1]
        IN  /\ last'.ret = None
            /\ sk'.length = sk.length + 1
            /\ iter(sk') = WithInserted(iter(sk), LessEqualCount(iter(sk), Key(v)), v)

C8_Stable == [][C8_StableStep]_vars

\* C8 amended: in a duplicatable list every insert returns None, increases
\* len() by one and puts the value before all existing equal elements, so
\* that equal elements appear in iter() in the reverse of insertion order.
C8_BeforeEqualStep ==
    Returned({"insert"}) /\ duplicatable =>
        LET v == last'.arg[1]
        IN  /\ last'.ret = None
            /\ sk'.length = sk.length + 1
            /\ iter(sk') = WithInserted(iter(sk), LessCount(iter(sk), Key(v)), v)

C8_BeforeEqual == [][C8_BeforeEqualStep]_vars

C8_Witness ==
    /\ duplicatable
    /\ last.op = "insert" /\ last.panic = "none"
    /\ \E j \in 1..(Len(sk.chain) - 1) :
           /\ iter(sk)[j] = last.arg[1]
           /\ Key(iter(sk)[j + 1]) = Key(last.arg[1])
           /\ iter(sk)[j + 1] # last.arg[1]

\* C9: a SkipSet behaves as a mathematical set over add, remove, remove_min
\* and remove_max: no two equal elements, iter() strictly ascending,
\* cardinal() the number of keys added and not removed since, and
\* contains(q)/get(q) succeed exactly for those keys.
C9_SetRefinement ==
    container = "SkipSet" =>
        /\ \A i \in 1..(Len(IterKeys) - 1) : IterKeys[i] < IterKeys[i + 1]
        /\ cardinal(sk) = Cardinality(added)
        /\ {IterKeys[i] : i \in DOMAIN IterKeys} = added
        /\ \A q \in Queries :
               /\ contains(sk, q) <=> q \in added
               /\ q \in added => set_get(sk, q) # None /\ Key(set_get(sk, q)[1]) = q
               /\ q \notin added => set_get(sk, q) = None

C9_Witness ==
    /\ container = "SkipSet"
    /\ last.op = "set_remove" /\ last.ret # None
    /\ Cardinality(added) = 2
    /\ ~contains(sk, last.arg[1])
    /\ \E q \in Queries : q > last.arg[1] /\ contains(sk, q)
    /\ \E q \in Queries : q < last.arg[1] /\ contains(sk, q)

\* C10: get_first(q) returns the smallest index whose element equals q with
\* that element, get_last(q) the largest such index with its element, and
\* both return None exactly when no element equals q.
C10_FirstLast ==
    \A q \in Queries :
        LET eq == EqualAt(iter(sk), q)
        IN  IF eq = {}
            THEN get_first(sk, q) = None /\ get_last(sk, q) = None
            ELSE /\ get_first(sk, q) = Some(<<SetMin(eq) - 1, iter(sk)[SetMin(eq)]>>)
                 /\ get_last(sk, q) = Some(<<SetMax(eq) - 1, iter(sk)[SetMax(eq)]>>)

C10_Witness ==
    /\ duplicatable
    /\ sk.length >= 3
    /\ HasLongLink
    /\ \E q \in Queries :
           /\ get_first(sk, q) # None
           /\ get_last(sk, q)[1][1] = get_first(sk, q)[1][1] + 1
           /\ get_first(sk, q)[1][1] > 0
\* the elements of s that do not compare equal to q, in order
WithoutEqual(s, q) == SelectSeq(s, LAMBDA v : Key(v) # q)

\* C11: remove_value(q) removes every element equal to q and no other one,
\* returns the number removed (0 and no change when nothing matches), and
\* afterwards get_first(q) is None and len() has dropped by that number.
C11_RemoveValueStep ==
    last'.op = "remove_value" =>
        LET q == last'.arg[1]
            n == Cardinality(EqualAt(iter(sk), q))
        IN  /\ last'.panic = "none"
            /\ last'.ret = Some(n)
            /\ iter(sk') = WithoutEqual(iter(sk), q)
            /\ n = 0 => sk' = sk
            /\ get_first(sk', q) = None
            /\ sk'.length = sk.length - n

C11_RemoveValue == [][C11_RemoveValueStep]_vars

C11_Witness ==
    /\ duplicatable
    /\ last.op = "remove_value" /\ last.ret = Some(2)
    /\ sk.length = 1
    /\ Key(iter(sk)[1]) # last.arg[1]
\* the value bounds a caller can pass: .., q.., ..q, ..=q and the Bound pairs
ValueBounds == {Unbounded} \cup {Included(q) : q \in Queries}
                           \cup {Excluded(q) : q \in Queries}

\* the value v satisfies the start bound and the end bound
WithinBounds(v, start, end) ==
    /\ CASE start.kind = "Unbounded" -> TRUE
         [] start.kind = "Included" -> Key(v) >= start.i
         [] start.kind = "Excluded" -> Key(v) > start.i
    /\ CASE end.kind = "Unbounded" -> TRUE
         [] end.kind = "Included" -> Key(v) <= end.i
         [] end.kind = "Excluded" -> Key(v) < end.i

\* s back to front
Reversed(s) == [i \in 1..Len(s) |-> s[Len(s) + 1 - i]]

IndexBounds == {Unbounded} \cup {Included(i) : i \in 0..MaxLen}
                           \cup {Excluded(i) : i \in 0..MaxLen}

\* C13: for a SkipList and index bounds normalising to left <= right, range
\* yields exactly the elements at indices left..right-1 in ascending index
\* order and reverse_range the same elements in descending index order; each
\* yields right-left items and then ends.
C13_IndexRange ==
    \A start \in IndexBounds, end \in IndexBounds :
        LET n == _normalize_range(sk, start, end)
            r == range(sk, start, end)
            rr == reverse_range(sk, start, end)
            want == SubSeq(iter(sk), n.left + 1, n.right)
        IN  n.left <= n.right =>
                /\ r.panic = "none" /\ rr.panic = "none"
                /\ r.items = want
                /\ rr.items = Reversed(want)
                /\ Len(r.items) = n.right - n.left
                /\ Len(rr.items) = n.right - n.left

C13_Witness ==
    /\ sk.length = 3
    /\ HasLongLink
    /\ iter(sk)[1] # iter(sk)[2] /\ iter(sk)[2] # iter(sk)[3]
    /\ range(sk, Unbounded, Excluded(2)).items = <<iter(sk)[1], iter(sk)[2]>>
    /\ reverse_range(sk, Excluded(0), Included(2)).items = <<iter(sk)[3], iter(sk)[2]>>
\* C14: get(index) returns None exactly when index >= len() and otherwise
\* the element at that index; it never panics, also on a list that was never
\* populated or that was emptied by removals.
C14_GetTotal ==
    \A index \in 0..(MaxLen + 1) :
        LET r == get(sk, index)
        IN  /\ r.panic = "none"
            /\ r.ret = None <=> index >= sk.length
            /\ index < sk.length => r.ret = Some(iter(sk)[index + 1])

C14_Witness ==
    /\ last.op \in RemoveOps \cup {"remove_range"} /\ last.panic = "none"
    /\ sk.length = 0
    /\ VecLen(sk.head.links) = Levels
    /\ get(sk, 0) = [ret |-> None, panic |-> "none"]
\* C15: for every index > len(), insert(index, v) panics and leaves the list
\* unchanged: no node is added, no link, span or length changes, and the
\* level generator is not advanced.
C15_InsertBoundsStep ==
    last'.op = "insert" /\ last'.arg[1] > sk.length =>
        /\ last'.panic = "Index out of bounds."
        /\ sk' = sk

C15_InsertBounds == [][C15_InsertBoundsStep]_vars

C15_Witness ==
    /\ last.op = "insert" /\ last.panic = "Index out of bounds."
    /\ last.arg[1] = sk.length + 1
    /\ sk.length = 2
    /\ HasLongLink
\* C16: for every index >= len(), also index == len() and the empty list,
\* remove(index) panics and changes no link, span, chain pointer or length
\* before it does.
C16_RemoveBoundsStep ==
    last'.op = "remove" /\ last'.arg[1] >= sk.length =>
        /\ last'.panic # "none"
        /\ sk' = sk

C16_RemoveBounds == [][C16_RemoveBoundsStep]_vars

C16_Witness ==
    /\ last.op = "remove" /\ last.panic = "unreachable"
    /\ last.arg[1] = sk.length
    /\ sk.length = 3
    /\ HasLongLink
\* C17: for every SkipList state, empty or not, range(bounds) and
\* reverse_range(bounds) normalise the bounds to [left, right) with right
\* clamped to len(), and panic with the invalid-range failure whenever
\* left > right after clamping.
C17_InvalidRangePanics ==
    \A start \in IndexBounds, end \in IndexBounds :
        LET n == _normalize_range(sk, start, end)
        IN  n.left > n.right =>
                /\ range(sk, start, end).panic = "Invalid range."
                /\ reverse_range(sk, start, end).panic = "Invalid range."

\* C18: OrderedSkipList::range and reverse_range panic whenever the start
\* bound's value is greater than the end bound's value, for every list
\* content.
C18_InvertedBoundsPanic ==
    container = "OrderedSkipList" =>
        \A start \in ValueBounds, end \in ValueBounds :
            start.kind # "Unbounded" /\ end.kind # "Unbounded" /\ start.i > end.i =>
                /\ ord_range(sk, start, end).panic # "none"
                /\ ord_reverse_range(sk, start, end).panic # "none"
\* C19: in every reachable state of a SkipList, an OrderedSkipList or a
\* SkipSet (after indexed or ordered inserts, remove, remove_range and pops),
\* reverse_iter() yields exactly the items of iter() in reverse order and
\* stops at the head; every node's prev is its level-0 predecessor.
C19_ReverseIter ==
    /\ reverse_iter(sk) = Reversed(iter(sk))
    /\ \A i \in 1..Len(sk.chain) : sk.chain[i].prev = i - 1

C19_Witness ==
    /\ last.op = "remove_range" /\ last.arg = <<1, 2>> /\ last.ret = Some(1)
    /\ sk.length = 2
    /\ iter(sk)[1] # iter(sk)[2]
    /\ reverse_iter(sk) = <<iter(sk)[2], iter(sk)[1]>>
\* C20: starting from an empty SkipList, n push_back calls followed by n
\* pop_back calls return the pushed values in reverse push order and leave
\* len() == 0; a further pop_back returns None without changing the list.
C20_DrainStep ==
    Len(hist'.popped) = Len(hist.pushed) + 1 /\ Len(hist.popped) = Len(hist.pushed) =>
        /\ last'.ret = None /\ last'.panic = "none"
        /\ sk' = sk

C20_DrainState ==
    LET n == Len(hist.pushed)
        k == Len(hist.popped)
    IN  /\ \A j \in 1..k : j <= n => hist.popped[j] = Some(hist.pushed[n + 1 - j])
        /\ k >= 1 => last.panic = "none"
        /\ k <= n => sk.length = n - k
        /\ k = n + 1 => sk.length = 0 /\ hist.popped[k] = None

C20_PushPopDrain == []C20_DrainState /\ [][C20_DrainStep]_vars

C20_Witness ==
    /\ Len(hist.pushed) = 3 /\ Len(hist.popped) = 4
    /\ hist.pushed[1] # hist.pushed[3]
    /\ hist.popped = <<Some(hist.pushed[3]), Some(hist.pushed[2]), Some(hist.pushed[1]), None>>
    /\ sk.length = 0
    /\ VecLen(sk.head.links) = Levels
\* s with every maximal run of consecutive equal elements collapsed to the
\* first element of the run
RECURSIVE CollapseRuns(_)
CollapseRuns(s) ==
    IF Len(s) <= 1 THEN s
    ELSE LET r == CollapseRuns(SubSeq(s, 1, Len(s) - 1))
         IN  IF Key(s[Len(s)]) = Key(s[Len(s) - 1]) THEN r ELSE Append(r, s[Len(s)])

\* C21: after dedup() the sequence equals the input with each maximal run of
\* consecutive equal elements collapsed to the first element of the run;
\* equal values that are not adjacent are all kept, and len() equals the
\* number of runs.
C21_DedupStep ==
    last'.op = "dedup" =>
        /\ last'.panic = "none"
        /\ iter(sk') = CollapseRuns(iter(sk))
        /\ sk'.length = Len(CollapseRuns(iter(sk)))
        /\ sk'.length = Len(sk'.chain)

C21_Dedup == [][C21_DedupStep]_vars

C21_Witness ==
    /\ last.op = "dedup" /\ last.panic = "none"
    /\ Len(last.arg[1]) = 4
    /\ LET s == last.arg[1]
       IN  /\ Key(s[1]) = Key(s[2]) /\ s[1] # s[2]
           /\ Key(s[3]) # Key(s[1]) /\ Key(s[4]) = Key(s[1])
           /\ iter(sk) = <<s[1], s[3], s[4]>>
    /\ sk.length = 3
\* the set of keys of the items of s
KeySet(s) == {Key(s[i]) : i \in DOMAIN s}

\* s is strictly ascending, hence without repeats
StrictlyAscending(s) == \A i \in 1..(Len(s) - 1) : Key(s[i]) < Key(s[i + 1])

\* the sequence s lists exactly the keys of S in strictly ascending order
Lists(s, S) == StrictlyAscending(s) /\ KeySet(s) = S

\* C22: for any two SkipSets A and B, union, intersection (whichever
\* strategy), difference and symmetric_difference each yield in strictly
\* ascending order and without repeats exactly the elements of the union,
\* the intersection, A\B and the symmetric difference, so that
\* |union| = |A| + |B| - |intersection|.
C22_SetAlgebra ==
    LET A == KeySet(iter(sk))
        B == KeySet(iter(rhs))
    IN  /\ Lists(union(sk, rhs), A \cup B)
        /\ Lists(intersection(sk, rhs), A \cap B)
        /\ Lists(intersection_traverse(sk, rhs), A \cap B)
        /\ Lists(intersection_search(sk, rhs), A \cap B)
        /\ Lists(difference(sk, rhs), A \ B)
        /\ Lists(symmetric_difference(sk, rhs), (A \ B) \cup (B \ A))
        /\ Len(union(sk, rhs)) = cardinal(sk) + cardinal(rhs) - Len(intersection(sk, rhs))

C22_Witness ==
    /\ KeySet(iter(sk)) = {1, 2} /\ KeySet(iter(rhs)) = {2, 3}
    /\ Len(union(sk, rhs)) = 3
    /\ intersection(sk, rhs) = <<<<2, 0>>>>
    /\ difference(sk, rhs) = <<<<1, 0>>>>
    /\ symmetric_difference(sk, rhs) = <<<<1, 0>>, <<3, 1>>>>

\* C23: for any two SkipSets A and B, A.difference_traverse(B),
\* A.difference_search(B) and the automatically selected A.difference(B)
\* yield the identical sequence, on either side of the heuristic.
C23_DifferenceAgree ==
    /\ difference_traverse(sk, rhs) = difference_search(sk, rhs)
    /\ difference(sk, rhs) = difference_traverse(sk, rhs)
    /\ difference_traverse(rhs, sk) = difference_search(rhs, sk)
    /\ difference(rhs, sk) = difference_traverse(rhs, sk)

C23_Witness ==
    /\ UseSearch(sk, rhs) /\ ~UseSearch(rhs, sk)
    /\ cardinal(sk) = 1 /\ cardinal(rhs) = 3
    /\ levels(rhs) = Levels
    /\ difference_search(sk, rhs) = <<>>
    /\ Len(difference_traverse(rhs, sk)) = 2

\* C24: for any two SkipSets A and B, including empty ones, A.is_subset(B)
\* is true exactly when every element of A is in B, and A.is_superset(B)
\* exactly when every element of B is in A.
C24_SubsetSuperset ==
    LET A == KeySet(iter(sk))
        B == KeySet(iter(rhs))
    IN  /\ is_subset(sk, rhs) <=> A \subseteq B
        /\ is_superset(sk, rhs) <=> B \subseteq A

C24_Witness ==
    /\ cardinal(sk) = 1 /\ cardinal(rhs) = 2
    /\ is_subset(sk, rhs) /\ ~is_superset(sk, rhs)
    /\ ~is_subset(rhs, sk) /\ is_superset(rhs, sk)
\* C25: no public OrderedSkipList or SkipSet call (range, reverse_range,
\* get_first, get_last, remove_first, remove_last, remove_value, contains),
\* also on an empty, never-populated or emptied structure, reaches the
\* empty-structure panic of the index helpers or the unreachable!() of
\* remove_value.
C25_NoInternalPanic ==
    /\ \A start \in ValueBounds, end \in ValueBounds :
           /\ ord_range(sk, start, end).panic # EmptyStructure
           /\ ord_reverse_range(sk, start, end).panic # EmptyStructure
    /\ \A q \in Queries :
           /\ remove_value(sk, q).panic = "none"
           /\ sk.length = 0 =>
                  /\ get_first(sk, q) = None /\ get_last(sk, q) = None
                  /\ ~contains(sk, q)
                  /\ \A np \in BuildChoices(sk) :
                         /\ remove_first(sk, q, np) = [sk |-> sk, ret |-> None, panic |-> "none"]
                         /\ remove_last(sk, q, np) = [sk |-> sk, ret |-> None, panic |-> "none"]
    /\ last.panic \notin {EmptyStructure, "unreachable"} \/ last.op = "remove"

C25_Witness ==
    /\ last.op = "remove_value" /\ last.ret = Some(2)
    /\ sk.length = 0
    /\ VecLen(sk.head.links) = Levels
    /\ ord_range(sk, Included(1), Excluded(2)) = [items |-> <<>>, panic |-> "none"]
    /\ ord_reverse_range(sk, Excluded(0), Unbounded) = [items |-> <<>>, panic |-> "none"]
\* C26: explain(range) returns the error result exactly when the normalised
\* window width right-left is greater than 20, returns Ok text for every
\* width from 0 to 20 inclusive, and never modifies the list.
C26_ExplainStep ==
    last'.op = "explain" =>
        LET n == _normalize_range(sk, last'.arg[1], last'.arg[2])
            width == n.right - n.left
        IN  /\ sk' = sk
            /\ n.left <= n.right =>
                   /\ last'.panic = "none"
                   /\ ~last'.ret.ok <=> width > 20
                   /\ width \in 0..20 =>
                          /\ last'.ret.ok
                          /\ last'.ret.text.show_len = width
                          /\ last'.ret.text.values = SubSeq(iter(sk), n.left + 1, n.right)

LaterWithLevel(p, i) ==
    {j \in (p + 1)..Len(sk.chain) : VecLen(sk.chain[j].links) > i}

\* C27: in every reachable state, for every node including the head and
\* every level i it has: a non-null links[i] points to the nearest later node
\* with more than i levels and links_len[i] >= 1 is the difference of their
\* positions; a null links[i] means no later node has more than i levels and
\* links_len[i] = 0.
C27_Spans ==
    \A p \in 0..Len(sk.chain) :
        LET node == NodeAt(sk, p)
        IN  /\ VecLen(node.links) = VecLen(node.links_len)
            /\ \A i \in 0..(VecLen(node.links) - 1) :
                   LET later == LaterWithLevel(p, i)
                   IN  IF later = {}
                       THEN /\ VecGet(node.links, i) = Null
                            /\ VecGet(node.links_len, i) = 0
                       ELSE /\ VecGet(node.links, i) = SetMin(later)
                            /\ VecGet(node.links_len, i) = SetMin(later) - p
                            /\ VecGet(node.links_len, i) >= 1

C27_Witness ==
    /\ last.op \in RemoveOps /\ last.panic = "none"
    /\ sk.length = 2 /\ Len(sk.chain) = 2
    /\ VecLen(sk.head.links) = 2
    /\ VecGet(sk.head.links, 1) = 2 /\ VecGet(sk.head.links_len, 1) = 2
    /\ VecLen(sk.chain[1].links) = 1 /\ VecLen(sk.chain[2].links) = 2
    /\ VecGet(sk.chain[2].links, 1) = Null /\ VecGet(sk.chain[2].links_len, 1) = 0
\* the address a is null or that of a node still in the chain
LiveOrNull(a) == a = Null \/ a \in 1..Len(sk.chain)

\* C28: after every remove, remove_range, remove_value or pop, no links[]
\* entry and no prev pointer of the head or of a remaining node refers to a
\* removed node: every reference targets the head or a node still in the
\* level-0 chain.
C28_NoDangling ==
    /\ \A i \in DOMAIN sk.head.links : LiveOrNull(sk.head.links[i])
    /\ sk.head.prev = Null
    /\ \A p \in 1..Len(sk.chain) :
           /\ \A i \in DOMAIN sk.chain[p].links : LiveOrNull(sk.chain[p].links[i])
           /\ sk.chain[p].prev \in 0..Len(sk.chain)

C28_Witness ==
    /\ last.op = "remove_value" /\ last.ret = Some(2)
    /\ sk.length = 1 /\ Len(sk.chain) = 1
    /\ VecLen(sk.head.links) = 2
    /\ sk.head.links = <<1, Null>>
    /\ sk.chain[1].prev = HeadPtr
\* the links and spans of a node
Structure(node) == [links |-> node.links, links_len |-> node.links_len, prev |-> node.prev]

\* C29: an OrderedSkipList::insert that finds an equal element in a list
\* that is not duplicatable changes only that element's stored value: the
\* length, the element order, every node's links and spans and the head's
\* number of levels are the same after the call as before it.
C29_ReplaceFrameStep ==
    Returned({"insert", "add"}) /\ ~duplicatable
        /\ EqualAt(iter(sk), Key(last'.arg[1])) # {} =>
            /\ sk'.length = sk.length
            /\ Len(sk'.chain) = Len(sk.chain)
            /\ \A j \in DOMAIN sk.chain :
                   /\ Structure(sk'.chain[j]) = Structure(sk.chain[j])
                   /\ Key(sk'.chain[j].value[1]) = Key(sk.chain[j].value[1])
                   /\ sk'.chain[j].value # sk.chain[j].value => sk'.chain[j].value = Some(last'.arg[1])
            /\ VecLen(sk'.head.links) = VecLen(sk.head.links)
            /\ Structure(sk'.head) = Structure(sk.head)

C29_ReplaceFrame == [][C29_ReplaceFrameStep]_vars
\* C30: every SkipList::insert and OrderedSkipList::insert call increases
\* the head's number of levels by at most one, whatever level the draw
\* produces and whatever generator the list was constructed with.
C30_HeadGrowthStep ==
    last'.op \in InsertOps \cup {"add"} =>
        VecLen(sk'.head.links) <= VecLen(sk.head.links) + 1

C30_HeadGrowth == [][C30_HeadGrowthStep]_vars

\* C31: every choose() call returns a level no greater than the
\* cur_level_limit the generator held before the call, whatever the sample
\* and the probability, and the first choose() on a generator fresh from
\* with_config or from clone returns 0.
C31_ChooseStep ==
    last'.op = "choose" =>
        /\ last'.panic = "none" =>
               last'.ret[1] <= Gen(last'.arg[1]).cur_level_limit
        /\ last'.arg[1] \notin added =>
               last'.panic = "none" /\ last'.ret = Some(0)

C31_ChooseWithinLimit == [][C31_ChooseStep]_vars

\* C32: for a generator configured with L >= 1 levels every level returned
\* by choose() is at most L-1 and cur_level_limit never exceeds L, over any
\* sequence of choose() and shrink() calls; a draw that reaches the ceiling
\* (the loop ends at level = cur_level_limit = L) returns L-1.
C32_ClampStep ==
    last'.op = "choose" =>
        LET lg == Gen(last'.arg[1])
        IN  lg.levels >= 1 =>
                /\ last'.panic = "none"
                /\ last'.ret[1] <= lg.levels - 1
                /\ lg.cur_level_limit = lg.levels /\ last'.arg[2] >= lg.levels =>
                       last'.ret = Some(lg.levels - 1)

C32_LimitBound ==
    \A g \in Generators :
        Gen(g).levels >= 1 => Gen(g).cur_level_limit \in 0..Gen(g).levels

C32_Clamp == []C32_LimitBound /\ [][C32_ClampStep]_vars

C32_Witness ==
    /\ last.op = "choose" /\ last.arg = <<"lg", Levels + 1>>
    /\ last.ret = Some(Levels - 1)
    /\ sk.level_generator = [levels |-> Levels, cur_level_limit |-> Levels]
    /\ rhs.level_generator.cur_level_limit = 0
    /\ "copy" \in added

\* C33: across any sequence of SkipList, OrderedSkipList and SkipSet calls
\* (inserts and every kind of removal) the generator's cur_level_limit and the
\* head's number of levels never decrease: no removal calls shrink() or
\* shortens the head's level array.
C33_MonotoneStep ==
    /\ sk'.level_generator.cur_level_limit >= sk.level_generator.cur_level_limit
    /\ VecLen(sk'.head.links) >= VecLen(sk.head.links)
    /\ VecLen(sk'.head.links_len) >= VecLen(sk.head.links_len)

C33_Monotone == [][C33_MonotoneStep]_vars

C33_Witness ==
    /\ last.op \in {"remove", "remove_first", "set_remove"} /\ last.panic = "none"
    /\ last.ret # None
    /\ sk.length = 1 /\ Len(sk.chain) = 1
    /\ VecLen(sk.chain[1].links) = 1
    /\ VecLen(sk.head.links) = 2
    /\ sk.level_generator.cur_level_limit = 2

\* the number of levels of the tallest node of the list, 0 without nodes
TallestLevels ==
    IF sk.chain = <<>> THEN 0
    ELSE CHOOSE n \in {VecLen(sk.chain[j].links) : j \in DOMAIN sk.chain} :
             \A j \in DOMAIN sk.chain : VecLen(sk.chain[j].links) <= n

\* C34: in every reachable state the head's links length equals the number
\* of levels of the tallest node currently in the list.
C34_HeadEqualsTallest == VecLen(sk.head.links) = TallestLevels

\* C34, as the code has it: the head's links length is at least the number
\* of levels of the tallest node currently in the list (and of links_len
\* alike); it is never shortened, so it exceeds it once the tallest node is
\* removed.
C34_HeadCoversTallest ==
    /\ VecLen(sk.head.links) >= TallestLevels
    /\ VecLen(sk.head.links_len) = VecLen(sk.head.links)

C34_Witness ==
    /\ last.op \in {"pop_front", "pop_back", "remove_min", "remove_max"}
    /\ last.ret # None
    /\ sk.length = 1 /\ TallestLevels = 1
    /\ VecLen(sk.head.links) = 2

\* C35: whenever insert is called with index > len() or remove with
\* index >= len(), the failure raised is the panic of the initial bounds
\* check, "Index out of bounds.", not a different failure met later in the
\* walk.
C35_BoundsFailureStep ==
    /\ last'.op = "insert" /\ last'.arg[1] > sk.length =>
           last'.panic = "Index out of bounds."
    /\ last'.op = "remove" /\ last'.arg[1] >= sk.length =>
           last'.panic = "Index out of bounds."

C35_BoundsFailure == [][C35_BoundsFailureStep]_vars

\* what a removal by value has to do when `found` is what the lookup reports
\* in the state before the call: nothing without an equal element, else take
\* out the element at the reported index, which is the one at 1-based
\* position `at` among the equal ones, and return it
RemovesAt(found, at) ==
    IF found = None
    THEN /\ at = {}
         /\ last'.ret = None /\ last'.panic = "none"
         /\ sk' = sk
    ELSE LET index == found[1][1]
         IN  /\ at # {} /\ index + 1 \in at
             /\ last'.panic = "none"
             /\ last'.ret = Some(found[1][2])
             /\ last'.ret = Some(iter(sk)[index + 1])
             /\ iter(sk') = WithoutRange(iter(sk), index, index + 1)
             /\ sk'.length = sk.length - 1

\* C36: on every reachable OrderedSkipList remove_first(q) removes exactly
\* the element at the index get_first(q) reports (the first element equal to
\* q) and remove_last(q) the one at the index get_last(q) reports (the last
\* one), returns it and keeps all other elements in their order; without an
\* element equal to q both return None and leave the list unchanged.
\* SkipSet::remove is remove_first.
C36_RemoveByValueStep ==
    /\ last'.op \in {"remove_first", "set_remove"} =>
           LET q == last'.arg[1]
               at == EqualAt(iter(sk), q)
           IN  /\ RemovesAt(get_first(sk, q), at)
               /\ at # {} => get_first(sk, q)[1][1] + 1 = SetMin(at)
    /\ last'.op = "remove_last" =>
           LET q == last'.arg[1]
               at == EqualAt(iter(sk), q)
           IN  /\ RemovesAt(get_last(sk, q), at)
               /\ at # {} => get_last(sk, q)[1][1] + 1 = SetMax(at)

C36_RemoveByValue == [][C36_RemoveByValueStep]_vars

C36_Witness ==
    /\ last.op = "remove_last" /\ last.arg = <<2>> /\ last.panic = "none"
    /\ duplicatable
    /\ last.ret \in {Some(<<2, 0>>), Some(<<2, 1>>)}
    /\ Len(iter(sk)) = 2
    /\ Key(iter(sk)[1]) = 1
    /\ Key(iter(sk)[2]) = 2 /\ Some(iter(sk)[2]) # last.ret

\* a descent that only moves forward in a level or down by one level, stays
\* within the list and never has a level below 0
DescentOk(path) ==
    /\ \A i \in DOMAIN path :
           /\ path[i].level >= 0
           /\ path[i].index \in 0..sk.length
           /\ path[i].ptr \in 0..Len(sk.chain)
    /\ \A i \in 1..(Len(path) - 1) :
           \/ /\ path[i + 1].level = path[i].level
              /\ path[i + 1].index > path[i].index
              /\ path[i + 1].ptr > path[i].ptr
           \/ /\ path[i + 1].level = path[i].level - 1
              /\ path[i + 1].index = path[i].index
              /\ path[i + 1].ptr = path[i].ptr

\* the loop was left at level 0
EndsAtLevel0(path) == path[Len(path)].level = 0

\* C37: every call of get, insert, remove, remove_range, get_first, get_last
\* or OrderedSkipList::insert on a reachable state with arguments that pass
\* the call's bounds check terminates: its descent only moves forward or
\* down, never has a level below 0 and leaves the loop at level 0 (the loop
\* of get is left at the node looked for, at level 0 at the latest) without
\* a panic.
C37_Terminates ==
    /\ \A index \in 0..MaxLen :
           /\ ~get_guard(sk.length, index) =>
                  LET st == GetPtrDescent(sk, index)
                  IN  DescentOk(st.path) /\ st.cur_index = index + 1
           /\ ~insert_guard(index, sk.length) =>
                  \A draw \in 0..Levels :
                      LET st == InsertDescent(sk, index, <<1, 0>>, draw)
                      IN  DescentOk(st.path) /\ EndsAtLevel0(st.path)
           /\ ~(index > sk.length) =>
                  \A np \in BuildChoices(sk) :
                      LET st == RemoveDescent(sk, index, np)
                      IN  /\ DescentOk(st.path) /\ EndsAtLevel0(st.path)
                          /\ st.panic = "none"
    /\ \A start \in StartBounds, end \in EndBounds :
           LET r == _normalize_range(sk, start, end)
           IN  r.panic = "none" /\ r.left < r.right =>
                   LET st == RemoveRangeDescent(sk, r.left + 1)
                   IN  DescentOk(st.path) /\ EndsAtLevel0(st.path)
    /\ container # "SkipList" =>
           /\ \A q \in Queries :
                  sk.length > 0 =>
                      /\ DescentOk(GetFirstDescent(sk, q).path)
                      /\ EndsAtLevel0(GetFirstDescent(sk, q).path)
                      /\ DescentOk(GetLastDescent(sk, q).path)
                      /\ EndsAtLevel0(GetLastDescent(sk, q).path)
           /\ \A value \in Values, draw \in 0..Levels :
                  LET st == OrdInsertDescent(sk, value, draw)
                  IN  DescentOk(st.path) /\ EndsAtLevel0(st.path)

\* v does not trigger a replace in the list as it is
NoReplace(v) == duplicatable \/ EqualAt(iter(sk), Key(v)) = {}

\* C38, for every call that could be made: OrderedSkipList::insert(v) and
\* SkipList::insert(k, v), k the number of stored elements less than v, give
\* the same list when they choose the same level.
C38_SameAsIndexed ==
    \A v \in Values, draw \in 0..Levels :
        NoReplace(v) =>
            LET k == LessCount(iter(sk), Key(v))
                o == ord_insert(sk, duplicatable, v, draw)
                i == insert(sk, k, v, draw)
            IN  /\ o.panic = "none" /\ i.panic = "none"
                /\ o.sk.head = i.sk.head
                /\ o.sk.chain = i.sk.chain
                /\ o.sk.length = i.sk.length
                /\ o.sk = i.sk

\* C38, for every call that is made: the list after an insert that does not
\* replace is the list SkipList::insert(k, v) gives with one of the levels.
C38_RefinesStep ==
    Returned({"insert", "add"}) /\ NoReplace(last'.arg[1]) =>
        \E draw \in 0..Levels :
            sk' = insert(sk, LessCount(iter(sk), Key(last'.arg[1])), last'.arg[1], draw).sk

\* C38: on every reachable ordered list, for every value v that does not
\* trigger a replace and every chosen level, OrderedSkipList::insert(v)
\* produces exactly the links, spans, prev/next chain and length that
\* SkipList::insert(k, v) produces with the same level, where k is the number
\* of stored elements less than v.
C38_Refines == []C38_SameAsIndexed /\ [][C38_RefinesStep]_vars

C38_Witness ==
    /\ container = "OrderedSkipList" /\ duplicatable
    /\ last.op = "insert" /\ last.arg = <<<<2, 1>>>> /\ last.panic = "none"
    /\ sk.length = 3
    /\ iter(sk) = <<<<1, 0>>, <<2, 1>>, <<2, 0>>>>
    /\ VecLen(sk.chain[2].links) = 1
    /\ VecLen(sk.chain[1].links) = 2 /\ VecLen(sk.chain[3].links) = 2
    /\ sk.chain[1].links_len = <<1, 2>>

\* C39: the node immediately following the head has a null prev in every
\* reachable state; only later nodes have a non-null prev.
C39_FirstPrevNull ==
    \A p \in 1..Len(sk.chain) :
        IF p = 1 THEN sk.chain[p].prev = Null ELSE sk.chain[p].prev # Null

\* C39, as the code has it: in every reachable state the prev of every node
\* is the address of its immediate predecessor, which for the node following
\* the head is the head itself and never null; only the head has a null prev.
C39_PrevIsPredecessor ==
    /\ sk.head.prev = Null
    /\ \A p \in 1..Len(sk.chain) : sk.chain[p].prev = p - 1

C39_Witness ==
    /\ container = "SkipList"
    /\ last.op \in {"remove", "pop_front"} /\ last.arg[1] = 0 /\ last.panic = "none"
    /\ sk.length = 2
    /\ sk.chain[1].prev = HeadPtr
    /\ sk.chain[2].prev = 1
====
